---- MODULE Spec2Model ----
(***************************************************************************)
(* Model of the Quora/Medium crawler service: the bounded retry executor   *)
(* (SeleniumBaseService.findElementsWithRetry), the field-fill             *)
(* verification checks of the Medium and Quora workflows, the login and    *)
(* the try/catch/finally skeleton of the publish, verify and track entry   *)
(* points, the new-tab confirmation of createQuoraPost, the in-place       *)
(* confirmation of publishToMedium, the stages of both workflows after     *)
(* login, and the matching of the buttons they click.                      *)
(***************************************************************************)
EXTENDS Integers, Sequences, FiniteSets, TLC

VARIABLES
    opts,       \* options of the running findElementsWithRetry call
    poll,       \* locals and observable effects of that call
    shadow,     \* the same call fed the same probe outcomes, throws replaced by a falsy return
    expectedText,   \* the text handed to a fill step (content.title, content.content, fullContent)
    actualText,     \* the text the field holds when the verification script reads it
    verdicts,       \* what each verification script returned for that pair
    platform,   \* "quora" (publishToQuora) or "medium" (publishToMedium)
    creds,      \* the LoginCredentials of the run
    run,        \* where the publish run stands, and the result it returns
    login,      \* locals of loginToQuora / loginToMedium
    race,       \* the Promise.race of the verification probe against the 10 s timer
    browser,    \* what the run did to the browser session
    tabs,       \* the browser's windows: handles in creation order, the focused one, their URLs
    post,       \* locals of createQuoraPost from the handle snapshot to its return
    story,      \* locals of publishToMedium's confirmation, and the URL the browser shows
    flow,       \* the workflow after login: the page it meets, the stages it has entered
    click       \* one button-matching step: the strategy, and the element it clicked

pollVars == <<opts, poll, shadow>>
oracleVars == <<expectedText, actualText, verdicts>>
publishVars == <<platform, creds, run, login, race, browser>>
flowVars == <<tabs, post, story>>
stageVars == <<flow, click>>

vars == <<opts, poll, shadow, expectedText, actualText, verdicts,
          platform, creds, run, login, race, browser, tabs, post, story, flow, click>>

\* Values of the variables a specification does not use.
PollIdle == opts = [maxRetries |-> 0, interval |-> 0, timeout |-> 1] /\ poll = "idle" /\ shadow = "idle"
OracleIdle == expectedText = <<>> /\ actualText = <<>> /\ verdicts = "idle"
PublishIdle ==
    /\ platform = "none" /\ creds = "idle" /\ run = "idle"
    /\ login = "idle" /\ race = "idle" /\ browser = "idle"
FlowIdle == tabs = "idle" /\ post = "idle" /\ story = "idle"
StageIdle == flow = "idle" /\ click = "idle"

----------------------------------------------------------------------------
(* Bounds of the retry executor's inputs. *)
MaxRetriesBound == 3
MaxInterval == 2
MaxTimeout == 4

\* Time one probe invocation may take, in clock ticks.
ProbeDurs == {0, 1}

\* Values a probe resolves with: false and null are falsy in JavaScript; true and
\* the objects {clicked: true} / {clicked: false} are truthy.
Values == {"false", "true", "clicked", "notClicked"}

\* Messages of the errors a probe rejects with (executeScript's failures).
Messages == {"WebDriver not initialized", "javascript error"}

\* A probe outcome: a resolved value or a thrown error.
Outcomes ==
    [kind : {"value"}, v : Values, dur : ProbeDurs]
        \cup [kind : {"throw"}, v : Messages, dur : ProbeDurs]

\* JavaScript truthiness of a resolved value: `if (result)`.
Truthy(v) == v \notin {"false", "null", "undefined", "0", ""}

NoError == "null"

\* `lastError?.message || 'Unknown'`
LastErrorMessage(lastError) ==
    IF lastError = NoError \/ lastError = "" THEN "Unknown" ELSE lastError

\* State of a call right after `const startTime = Date.now(); let lastError = null; let attempt = 0`.
PollStart ==
    [pc |-> "loop", attempt |-> 0, lastError |-> NoError, now |-> 0,
     calls |-> 0, sleeps |-> 0, slept |-> 0, trace |-> <<>>, starts |-> <<>>,
     ret |-> "none", error |-> "none", errorLast |-> "none"]

LoopHeadNoTimeout(p, o) ==
    IF p.attempt < o.maxRetries
    THEN [p EXCEPT !.attempt = p.attempt + 1, !.pc = "probe",
                   !.starts = Append(p.starts, p.now)]
    ELSE [p EXCEPT !.pc = "thrown", !.error = "Failed",
                   !.errorLast = LastErrorMessage(p.lastError)]

\* `while (attempt < maxRetries) { attempt++; elapsed = Date.now() - startTime;
\*  if (elapsed >= timeout) throw new Error("Timeout finding ...") ...`
\* and, when the loop condition fails, the final `throw new Error("Failed to find ...")`.
LoopHead(p, o) ==
    IF p.attempt < o.maxRetries
    THEN IF p.now >= o.timeout
         THEN [p EXCEPT !.attempt = p.attempt + 1, !.pc = "thrown", !.error = "Timeout",
                        !.errorLast = LastErrorMessage(p.lastError)]
         ELSE [p EXCEPT !.attempt = p.attempt + 1, !.pc = "probe",
                        !.starts = Append(p.starts, p.now)]
    ELSE [p EXCEPT !.pc = "thrown", !.error = "Failed",
                   !.errorLast = LastErrorMessage(p.lastError)]

ProbeThrowRethrown(p, out) ==
    LET q == [p EXCEPT !.calls = p.calls + 1, !.now = p.now + out.dur,
                       !.trace = Append(p.trace, out)]
    IN  IF out.kind = "throw"
        THEN [q EXCEPT !.pc = "thrown", !.error = "Probe", !.errorLast = out.v]
        ELSE IF Truthy(out.v) THEN [q EXCEPT !.pc = "returned", !.ret = out.v]
             ELSE [q EXCEPT !.pc = "wait"]

ProbeKeepsFirstError(p, out) ==
    LET q == [p EXCEPT !.calls = p.calls + 1, !.now = p.now + out.dur,
                       !.trace = Append(p.trace, out)]
    IN  IF out.kind = "throw"
        THEN [q EXCEPT !.lastError = IF p.lastError = NoError THEN out.v ELSE p.lastError,
                       !.pc = "wait"]
        ELSE IF Truthy(out.v) THEN [q EXCEPT !.pc = "returned", !.ret = out.v]
             ELSE [q EXCEPT !.pc = "wait"]

ProbeStrictTrue(p, out) ==
    LET q == [p EXCEPT !.calls = p.calls + 1, !.now = p.now + out.dur,
                       !.trace = Append(p.trace, out)]
    IN  IF out.kind = "throw"
        THEN [q EXCEPT !.lastError = out.v, !.pc = "wait"]
        ELSE IF out.v = "true" THEN [q EXCEPT !.pc = "returned", !.ret = out.v]
             ELSE [q EXCEPT !.pc = "wait"]

\* `try { const result = await findFunction(); if (result) return result; }
\*  catch (error) { lastError = error; }`
ProbeStep(p, out) ==
    LET q == [p EXCEPT !.calls = p.calls + 1, !.now = p.now + out.dur,
                       !.trace = Append(p.trace, out)]
    IN  IF out.kind = "throw"
        THEN [q EXCEPT !.lastError = out.v, !.pc = "wait"]
        ELSE IF Truthy(out.v) THEN [q EXCEPT !.pc = "returned", !.ret = out.v]
             ELSE [q EXCEPT !.pc = "wait"]

WaitAlwaysSleeps(p, o) ==
    [p EXCEPT !.sleeps = p.sleeps + 1, !.slept = p.slept + o.interval,
              !.now = p.now + o.interval, !.pc = "loop"]

\* `if (attempt < maxRetries) await new Promise(resolve => setTimeout(resolve, interval))`
\* A timer that fires late is indistinguishable from the next probe taking longer.
WaitStep(p, o) ==
    IF p.attempt < o.maxRetries
    THEN [p EXCEPT !.sleeps = p.sleeps + 1, !.slept = p.slept + o.interval,
                   !.now = p.now + o.interval, !.pc = "loop"]
    ELSE [p EXCEPT !.pc = "loop"]

\* The outcome the shadow call sees: a throw becomes a falsy return.
Falsify(out) ==
    IF out.kind = "throw" THEN [kind |-> "value", v |-> "false", dur |-> out.dur] ELSE out

\* One step of a call from wherever it stands; a finished call stays finished.
Advance(p, o, out) ==
    CASE p.pc = "loop"  -> LoopHead(p, o)
      [] p.pc = "probe" -> ProbeStep(p, out)
      [] p.pc = "wait"  -> WaitStep(p, o)
      [] OTHER          -> p

PollInit ==
    /\ opts \in [maxRetries : 0..MaxRetriesBound, interval : 0..MaxInterval,
                 timeout : 1..MaxTimeout]
    /\ poll = PollStart
    /\ shadow = PollStart
    /\ OracleIdle
    /\ PublishIdle
    /\ FlowIdle
    /\ StageIdle

PollLoop ==
    /\ poll.pc = "loop"
    /\ poll' = LoopHead(poll, opts)
    /\ shadow' = Advance(shadow, opts, [kind |-> "value", v |-> "false", dur |-> 0])
    /\ UNCHANGED <<opts, oracleVars, publishVars, flowVars, stageVars>>

PollProbe ==
    /\ poll.pc = "probe"
    /\ \E out \in Outcomes :
          /\ poll' = ProbeStep(poll, out)
          /\ shadow' = Advance(shadow, opts, Falsify(out))
    /\ UNCHANGED <<opts, oracleVars, publishVars, flowVars, stageVars>>

PollWait ==
    /\ poll.pc = "wait"
    /\ poll' = WaitStep(poll, opts)
    /\ shadow' = Advance(shadow, opts, [kind |-> "value", v |-> "false", dur |-> 0])
    /\ UNCHANGED <<opts, oracleVars, publishVars, flowVars, stageVars>>

PollNext == PollLoop \/ PollProbe \/ PollWait

SpecPoll == PollInit /\ [][PollNext]_vars

----------------------------------------------------------------------------
(* Properties of the retry executor. *)

Max(a, b) == IF a >= b THEN a ELSE b

IsFalsy(out) == out.kind = "value" /\ ~Truthy(out.v)
IsTruthy(out) == out.kind = "value" /\ Truthy(out.v)
IsThrow(out) == out.kind = "throw"

\* Every probe invocation of the call so far returned a falsy value.
AllFalsy(p) == \A k \in 1..Len(p.trace) : IsFalsy(p.trace[k])

\* Index of the most recent throwing invocation, 0 if the probe never threw.
LastThrowIndex(p) ==
    LET idx == {k \in 1..Len(p.trace) : IsThrow(p.trace[k])}
    IN  IF idx = {} THEN 0 ELSE CHOOSE k \in idx : \A j \in idx : j <= k

\* C1 as stated: whenever the probe was falsy on every invocation and the call has
\* failed, the probe was invoked exactly maxRetries times, with a sleep between
\* consecutive invocations (elapsed >= (n-1)*interval), and the failure is the
\* retries-exhausted one.
C1_ExactlyNAttempts ==
    (poll.pc = "thrown" /\ AllFalsy(poll)) =>
        /\ poll.calls = opts.maxRetries
        /\ poll.sleeps = Max(opts.maxRetries - 1, 0)
        /\ poll.now >= (opts.maxRetries - 1) * opts.interval
        /\ poll.error = "Failed"

\* C1 amended: with an always-falsy probe, a call that fails as retries-exhausted
\* made exactly maxRetries invocations with a sleep between consecutive ones; a call
\* that fails earlier does so as a timeout, at the start of an attempt at which the
\* elapsed time had reached timeout, after fewer than maxRetries invocations.
C1_ExactlyNAttemptsUnlessTimeout ==
    (poll.pc = "thrown" /\ AllFalsy(poll)) =>
        \/ /\ poll.error = "Failed"
           /\ poll.calls = opts.maxRetries
           /\ poll.sleeps = Max(opts.maxRetries - 1, 0)
           /\ poll.now >= (opts.maxRetries - 1) * opts.interval
        \/ /\ poll.error = "Timeout"
           /\ poll.now >= opts.timeout
           /\ poll.calls < opts.maxRetries
           /\ poll.sleeps = poll.calls

C1_Witness ==
    /\ poll.pc = "thrown" /\ AllFalsy(poll) /\ poll.error = "Failed"
    /\ poll.calls = 3 /\ opts.interval = 1 /\ poll.sleeps = 2

\* C2: a truthy probe result is always the last invocation of the call: the call
\* has returned that value, the probe was not invoked again, and the only sleeps
\* performed are the ones between the earlier attempts.
C2_ReturnsOnFirstTruthy ==
    \A k \in 1..Len(poll.trace) :
        IsTruthy(poll.trace[k]) =>
            /\ k = Len(poll.trace)
            /\ poll.pc = "returned"
            /\ poll.ret = poll.trace[k].v
            /\ poll.calls = k
            /\ poll.sleeps = k - 1
            /\ poll.slept = (k - 1) * opts.interval

C2_Witness ==
    /\ poll.pc = "returned" /\ poll.calls = 3 /\ poll.sleeps = 2
    /\ poll.ret = "notClicked" /\ opts.interval = 1

\* C3: the probe is invoked at most maxRetries times and never in an attempt that
\* starts with elapsed >= timeout; the call fails only when one of the two budgets
\* is used up.
C3_StopsAtFirstBudget ==
    /\ poll.calls <= opts.maxRetries
    /\ \A k \in 1..Len(poll.starts) : poll.starts[k] < opts.timeout
    /\ Len(poll.starts) = (IF poll.pc = "probe" THEN poll.calls + 1 ELSE poll.calls)
    /\ poll.pc = "thrown" =>
          \/ poll.error = "Timeout" /\ poll.now >= opts.timeout
          \/ poll.error = "Failed" /\ poll.attempt >= opts.maxRetries

C3_Witness ==
    /\ poll.pc = "thrown" /\ poll.error = "Timeout"
    /\ poll.calls = 2 /\ opts.maxRetries = 3

\* C4: a probe error is never re-raised, and the call behaves as the call in which
\* every throwing invocation returned a falsy value instead: same number of
\* invocations, same sleeps, same clock, same final outcome.
C4_ThrowTreatedAsFalsy ==
    /\ poll.error \in {"none", "Timeout", "Failed"}
    /\ poll.pc = shadow.pc
    /\ poll.calls = shadow.calls
    /\ poll.sleeps = shadow.sleeps
    /\ poll.slept = shadow.slept
    /\ poll.now = shadow.now
    /\ poll.error = shadow.error
    /\ poll.ret = shadow.ret

C4_Witness ==
    /\ poll.pc \in {"returned", "thrown"}
    /\ poll.calls = 3
    /\ \E k \in 1..Len(poll.trace) : IsThrow(poll.trace[k])
    /\ shadow.trace # poll.trace

\* C5: a failed call carries the message of the most recent error the probe threw
\* during the call, or the generic marker when the probe never threw.
C5_LastCapturedError ==
    poll.pc = "thrown" =>
        poll.errorLast =
            (IF LastThrowIndex(poll) = 0 THEN "Unknown"
             ELSE poll.trace[LastThrowIndex(poll)].v)

C5_Witness ==
    /\ poll.pc = "thrown"
    /\ \E j, k \in 1..Len(poll.trace) :
          /\ j < k /\ k < Len(poll.trace)
          /\ IsThrow(poll.trace[j]) /\ IsThrow(poll.trace[k])
          /\ poll.trace[j].v # poll.trace[k].v
          /\ LastThrowIndex(poll) = k

----------------------------------------------------------------------------
(* Field-fill verification: the checks the fill scripts of the Medium and   *)
(* Quora workflows run on the field's text. Texts are sequences of          *)
(* one-character strings.                                                   *)

\* Longest text put before or after the generated part of an input text.
MaxAffix == 1

Alphabet == {"a", "A", " "}

Min(a, b) == IF a <= b THEN a ELSE b

\* Texts over the alphabet of length at most n.
RECURSIVE TextsUpTo(_)
TextsUpTo(n) ==
    IF n = 0 THEN {<<>>}
    ELSE LET shorter == TextsUpTo(n - 1)
         IN  shorter \cup {Append(t, c) : t \in shorter, c \in Alphabet}

Affixes == TextsUpTo(MaxAffix)

\* n copies of the character "x".
Fill(n) == [k \in 1..n |-> "x"]

\* Lengths of the generated part: around the title prefix length and the body prefix length.
FillLens == {0, 9, 10, 49, 50}

\* String.prototype.toLowerCase, character by character.
LowerChar(c) == IF c = "A" THEN "a" ELSE IF c = "X" THEN "x" ELSE c
ToLowerCase(s) == [k \in 1..Len(s) |-> LowerChar(s[k])]

IsSpace(c) == c \in {" ", "\n", "\t"}

\* String.prototype.trim: strip white space from both ends.
RECURSIVE TrimStart(_)
TrimStart(s) == IF s # <<>> /\ IsSpace(Head(s)) THEN TrimStart(Tail(s)) ELSE s

RECURSIVE TrimEnd(_)
TrimEnd(s) ==
    IF s # <<>> /\ IsSpace(s[Len(s)]) THEN TrimEnd(SubSeq(s, 1, Len(s) - 1)) ELSE s

Trim(s) == TrimEnd(TrimStart(s))

\* s.substring(0, n)
Substring0(s, n) == SubSeq(s, 1, Min(n, Len(s)))

\* s.indexOf(t) searching from 0-based position `from`: the first match, or -1.
RECURSIVE IndexOfFrom(_, _, _)
IndexOfFrom(s, t, from) ==
    IF from + Len(t) > Len(s) THEN -1
    ELSE IF SubSeq(s, from + 1, from + Len(t)) = t THEN from
    ELSE IndexOfFrom(s, t, from + 1)

\* s.includes(t)
Includes(s, t) == IndexOfFrom(s, t, 0) # -1

\* Prefix lengths the two field classes of the Medium workflow compare.
TitlePrefixLen == 10
BodyPrefixLen == 50

\* Medium title fill: `const actualText = (titleElement.textContent || '').trim();
\*  wasSet = actualText.length > 0 && actualText.includes(title.substring(0, Math.min(10, title.length)))`
MediumTitleNoEmptyCheck(title, textContent) ==
    Includes(Trim(textContent), Substring0(title, Min(TitlePrefixLen, Len(title))))

MediumTitleCheck(title, textContent) ==
    LET actual == Trim(textContent)
    IN  Len(actual) > 0 /\ Includes(actual, Substring0(title, Min(TitlePrefixLen, Len(title))))

\* Medium content fill: `expectedStart = contentText.substring(0, Math.min(50, contentText.length));
\*  wasSet = actualText.length > 0 && actualText.includes(expectedStart)`
MediumBodyCheck(contentText, textContent) ==
    LET actual == Trim(textContent)
        expectedStart == Substring0(contentText, Min(BodyPrefixLen, Len(contentText)))
    IN  Len(actual) > 0 /\ Includes(actual, expectedStart)

\* Quora post fill, both the per-selector and the alternative verification:
\* `editorText = editor.textContent || editor.value || ''; expectedText = arguments[0].substring(0, 50);
\*  return editorText.toLowerCase().includes(expectedText.toLowerCase())`
QuoraPostCheck(fullContent, editorText) ==
    Includes(ToLowerCase(editorText), ToLowerCase(Substring0(fullContent, 50)))

BoolStr(b) == IF b THEN "true" ELSE "false"

\* Lengths at which the field's text is cut off the expected text.
CutLens(e) == {m \in {0, 9, 10, 11, 49, 50, Len(e) - 1, Len(e)} : m >= 0 /\ m <= Len(e)}

OracleInit ==
    /\ \E h \in Affixes, n \in FillLens : expectedText = h \o Fill(n)
    /\ \E l \in Affixes, r \in Affixes, m \in CutLens(expectedText), lower \in BOOLEAN :
          LET core == SubSeq(expectedText, 1, m)
          IN  actualText = l \o (IF lower THEN ToLowerCase(core) ELSE core) \o r
    /\ verdicts = [mediumTitle |-> "unset", mediumBody |-> "unset", quoraPost |-> "unset"]
    /\ PollIdle
    /\ PublishIdle
    /\ FlowIdle
    /\ StageIdle

MediumVerifyTitle ==
    /\ verdicts.mediumTitle = "unset"
    /\ verdicts' = [verdicts EXCEPT !.mediumTitle = BoolStr(MediumTitleCheck(expectedText, actualText))]
    /\ UNCHANGED <<expectedText, actualText, pollVars, publishVars, flowVars, stageVars>>

MediumVerifyBody ==
    /\ verdicts.mediumBody = "unset"
    /\ verdicts' = [verdicts EXCEPT !.mediumBody = BoolStr(MediumBodyCheck(expectedText, actualText))]
    /\ UNCHANGED <<expectedText, actualText, pollVars, publishVars, flowVars, stageVars>>

QuoraVerifyContent ==
    /\ verdicts.quoraPost = "unset"
    /\ verdicts' = [verdicts EXCEPT !.quoraPost = BoolStr(QuoraPostCheck(expectedText, actualText))]
    /\ UNCHANGED <<expectedText, actualText, pollVars, publishVars, flowVars, stageVars>>

OracleNext == MediumVerifyTitle \/ MediumVerifyBody \/ QuoraVerifyContent

SpecOracle == OracleInit /\ [][OracleNext]_vars

\* The criterion in words: the field's text, cut down to the span from its first to
\* its last non-space character, is non-empty and holds the first min(K, len) characters
\* of the expected text as a contiguous run.
NonSpace(s) == {k \in 1..Len(s) : ~IsSpace(s[k])}

ContainsPrefix(expected, actual, K) ==
    LET idx == NonSpace(actual)
        n == Min(K, Len(expected))
    IN  /\ idx # {}
        /\ LET lo == CHOOSE a \in idx : \A b \in idx : a <= b
               hi == CHOOSE a \in idx : \A b \in idx : b <= a
           IN  \E i \in lo..(hi + 1) :
                  /\ i + n - 1 <= hi
                  /\ \A k \in 1..n : actual[i + k - 1] = expected[k]

\* C6: the Medium title check (K = 10) and body check (K = 50) answer true exactly
\* when the trimmed field text is non-empty and contains the first min(K, len)
\* characters of the expected text; they answer false for a field text that is empty
\* after trimming.
C6_MediumChecksMatchCriterion ==
    /\ verdicts.mediumTitle # "unset" =>
          (verdicts.mediumTitle = "true") = ContainsPrefix(expectedText, actualText, 10)
    /\ verdicts.mediumBody # "unset" =>
          (verdicts.mediumBody = "true") = ContainsPrefix(expectedText, actualText, 50)
    /\ NonSpace(actualText) = {} =>
          verdicts.mediumTitle # "true" /\ verdicts.mediumBody # "true"

C6_Witness ==
    /\ Len(expectedText) = 11
    /\ Len(actualText) = 12 /\ IsSpace(actualText[1]) /\ IsSpace(actualText[12])
    /\ verdicts.mediumTitle = "true"
    /\ verdicts.mediumBody = "false"

\* C7: on every pair (expected text, field text) the Quora post verification and the
\* Medium body verification return the same verdict.
\* (Stated for the non-empty expected texts the HTTP layer lets through.)
C7_SameVerdictOnAllPlatforms ==
    (verdicts.quoraPost # "unset" /\ verdicts.mediumBody # "unset" /\ expectedText # <<>>) =>
        verdicts.quoraPost = verdicts.mediumBody

----------------------------------------------------------------------------
(* The publish run: publishToQuora / publishToMedium, with loginToQuora /   *)
(* loginToMedium. A domain is a sequence of tokens, "." being the           *)
(* separator.                                                               *)

\* Most cookies in credentials.cookies.
MaxCookies == 2
\* Most leading separators of a supplied cookie domain.
MaxDots == 2

Platforms == {"quora", "medium"}

\* `cookieToAdd.domain = '.quora.com'` / `'.medium.com'`
CanonicalDomain(pf) == IF pf = "quora" THEN <<".", "quora.com">> ELSE <<".", "medium.com">>

Dots(k) == [i \in 1..k |-> "."]

\* Supplied cookie domains; the empty domain stands for an absent or empty field.
Domains == {Dots(k) \o host : k \in 0..MaxDots, host \in {<<>>, <<"example.com">>}}

\* Names of the supplied cookies: Quora's session cookies, Medium's, and a cookie
\* without a name.
CookieNames == {"", "m-b", "m-s", "sid", "uid"}

\* Login reads of a name only whether it is empty: the names given to the runs
\* that log in.
LoginCookieNames == {"", "sid"}

\* `config.cookies` as its names, in order.
CookieLists == UNION {[1..n -> CookieNames] : n \in 0..MaxCookies}

\* The cookies of a given name; hostOnly is the boolean true, the boolean false,
\* or absent (Cookie-Editor format or ours).
CookiesNamed(name) ==
    [name : {name}, value : {"", "v"}, domain : Domains,
     hostOnly : {"true", "false", "absent"}]

Cookies == UNION {CookiesNamed(name) : name \in CookieNames}

StartsWithDot(d) == d # <<>> /\ Head(d) = "."

\* `cookie.domain.replace(/^\./, '')`
StripLeadingDot(d) == IF StartsWithDot(d) THEN Tail(d) ELSE d

\* The domain of cookieToAdd:
\* `if (cookie.domain) { if (hostOnly === true) domain.replace(/^\./, '')
\*    else domain.startsWith('.') ? domain : '.' + domain } else '.quora.com'`
NormalizeDomainIgnoresHostOnly(cookie, pf) ==
    IF cookie.domain # <<>>
    THEN IF StartsWithDot(cookie.domain) THEN cookie.domain ELSE <<".">> \o cookie.domain
    ELSE CanonicalDomain(pf)

NormalizeDomain(cookie, pf) ==
    IF cookie.domain # <<>>
    THEN IF cookie.hostOnly = "true"
         THEN StripLeadingDot(cookie.domain)
         ELSE IF StartsWithDot(cookie.domain) THEN cookie.domain ELSE <<".">> \o cookie.domain
    ELSE CanonicalDomain(pf)

\* `if (!cookie.name || !cookie.value)`
CookieInvalid(cookie) == cookie.name = "" \/ cookie.value = ""

NoCookie == [name |-> "", value |-> "", domain |-> <<>>, hostOnly |-> "absent"]
\* A PublishResult; `url` and `postId` are <<>> when the field is absent, and
\* `verified` is the `user.verified` of what verify*Config returns.
NoResult ==
    [success |-> "unset", error |-> "", screenshot |-> "none", url |-> <<>>, postId |-> <<>>,
     verified |-> "absent"]

ErrInit == "Failed to initialize WebDriver"
ErrNavigate == "navigation failed"
ErrNoCookies == "Failed to add any cookies. Please check cookie format and values."
ErrRefresh == "refresh failed"
ErrNoCredentials == "Either cookies or email/password required"
ErrLoginForm == "login form step failed"
ErrLoginNotVerified == "Failed to verify login - may need CAPTCHA or 2FA"
ErrWorkflow == "workflow stage failed"

\* The exported entry points: publishToQuora / publishToMedium, verifyQuoraConfig /
\* verifyMediumConfig, and trackQuoraPerformance (Quora only).
Ops == {"publish", "verify", "track"}

\* Locals of loginToQuora / loginToMedium when the function is entered.
LoginStartState ==
    [idx |-> 0, cookiesAdded |-> 0, cookiesFailed |-> 0,
     cookie |-> NoCookie, stored |-> <<>>, injected |-> FALSE, passed |-> FALSE,
     submitted |-> FALSE, indicator |-> "unread",
     loggedIn |-> FALSE, outcome |-> "pending"]

RaceIdle == [probe |-> "idle", timer |-> "idle", settled |-> "pending", winner |-> "none"]

\* The browser session before `new SeleniumBaseService(...)`: `driver` is the
\* service's `this.driver !== null`, `initialized` that initialize() returned.
NoBrowser ==
    [created |-> FALSE, driver |-> FALSE, initialized |-> FALSE, navigations |-> 0,
     refreshes |-> 0, addCookieCalls |-> 0, addCookieOk |-> 0, stagesRun |-> FALSE, closed |-> FALSE,
     shot |-> "unattempted", cleanups |-> 0]

PublishInit ==
    /\ platform \in Platforms
    /\ \E cookies \in CookieLists, email \in BOOLEAN, password \in BOOLEAN :
          creds = [numCookies |-> Len(cookies), email |-> email, password |-> password,
                   cookies |-> cookies]
    /\ run \in {[op |-> o, pc |-> "entry", error |-> "", result |-> NoResult] : o \in Ops}
    /\ run.op = "track" => platform = "quora"
    /\ run.op # "verify" => \A i \in 1..Len(creds.cookies) : creds.cookies[i] \in LoginCookieNames
    /\ login = LoginStartState
    /\ race = RaceIdle
    /\ browser = NoBrowser
    /\ PollIdle
    /\ OracleIdle
    /\ FlowIdle
    /\ StageIdle

\* Credentials of a run that logs in with the platform's session cookie.
OneSessionCookie(pf) ==
    [numCookies |-> 1, email |-> TRUE, password |-> FALSE,
     cookies |-> <<IF pf = "quora" THEN "m-b" ELSE "sid">>]

\* The run leaves the try block with a thrown error.
Throw(msg) == [run EXCEPT !.pc = "catch", !.error = msg]

\* Every non-empty list counts as verified.
HasAnyCookie(cookies, pf) == cookies # <<>>

\* `config.cookies.some(cookie => cookie.name === 'm-b' || cookie.name === 'm-s')`
\* of verifyQuoraConfig, `'sid' || ... 'uid'` of verifyMediumConfig.
HasRequiredCookies(cookies, pf) ==
    \E i \in 1..Len(cookies) :
        cookies[i] \in (IF pf = "quora" THEN {"m-b", "m-s"} ELSE {"sid", "uid"})

\* verifyQuoraConfig / verifyMediumConfig with a non-empty cookie list: the cookie
\* names are inspected and success is returned, `user.verified` telling whether a
\* required cookie was among them; no browser service is created.
QuickValidate ==
    /\ run.pc = "entry"
    /\ run.op = "verify" /\ creds.numCookies > 0
    /\ run' = [run EXCEPT !.pc = "done",
                          !.result = [success |-> "true", error |-> "",
                                      screenshot |-> "none", url |-> <<>>,
                                      postId |-> <<>>,
                                      verified |-> IF HasRequiredCookies(creds.cookies, platform)
                                                   THEN "true" ELSE "false"]]
    /\ UNCHANGED <<platform, creds, login, race, browser, pollVars, oracleVars, flowVars, stageVars>>

\* `const service = new SeleniumBaseService({...})`, before the try block: the
\* constructor only stores its configuration.
CreateService ==
    /\ run.pc = "entry"
    /\ ~(run.op = "verify" /\ creds.numCookies > 0)
    /\ browser' = [browser EXCEPT !.created = TRUE]
    /\ run' = [run EXCEPT !.pc = "init"]
    /\ UNCHANGED <<platform, creds, login, race, pollVars, oracleVars, flowVars, stageVars>>

\* `await service.initialize()`: the driver is built and its timeouts are set;
\* the build can fail (no driver), and so can setTimeouts (driver already assigned).
Initialize ==
    /\ run.pc = "init"
    /\ \/ /\ browser' = [browser EXCEPT !.driver = TRUE, !.initialized = TRUE]
          /\ run' = [run EXCEPT !.pc = "login"]
       \/ /\ run' = Throw(ErrInit)
          /\ \E built \in BOOLEAN : browser' = [browser EXCEPT !.driver = built]
    /\ UNCHANGED <<platform, creds, login, race, pollVars, oracleVars, flowVars, stageVars>>

\* Entry of loginToQuora / loginToMedium: cookies when supplied, else email and password.
LoginStart ==
    /\ run.pc = "login"
    /\ IF creds.numCookies > 0
       THEN run' = [run EXCEPT !.pc = "loginNav"] /\ UNCHANGED login
       ELSE IF ~creds.email \/ ~creds.password
            THEN run' = Throw(ErrNoCredentials) /\ login' = [login EXCEPT !.outcome = "thrown"]
            ELSE run' = [run EXCEPT !.pc = "credLogin"] /\ UNCHANGED login
    /\ UNCHANGED <<platform, creds, race, browser, pollVars, oracleVars, flowVars, stageVars>>

\* `await service.navigateTo('https://www.quora.com')`
LoginNavigate ==
    /\ run.pc = "loginNav"
    /\ browser' = [browser EXCEPT !.navigations = browser.navigations + 1]
    /\ \/ run' = [run EXCEPT !.pc = "cookieLoop"] /\ UNCHANGED login
       \/ run' = Throw(ErrNavigate) /\ login' = [login EXCEPT !.outcome = "thrown"]
    /\ UNCHANGED <<platform, creds, race, pollVars, oracleVars, flowVars, stageVars>>

\* The loop with the skipped cookie left out of both counters.
InjectCookieSkipUncounted ==
    /\ run.pc = "cookieLoop"
    /\ login.idx < creds.numCookies
    /\ \E cookie \in CookiesNamed(creds.cookies[login.idx + 1]), addOk \in BOOLEAN :
          /\ cookie \in Cookies
          /\ IF CookieInvalid(cookie)
             THEN /\ login' = [login EXCEPT !.idx = login.idx + 1, !.cookie = cookie,
                                            !.injected = FALSE, !.passed = FALSE]
                  /\ UNCHANGED browser
             ELSE /\ browser' = [browser EXCEPT !.addCookieCalls = browser.addCookieCalls + 1,
                                                !.addCookieOk = browser.addCookieOk
                                                                + (IF addOk THEN 1 ELSE 0)]
                  /\ IF addOk
                     THEN login' = [login EXCEPT !.idx = login.idx + 1, !.cookie = cookie,
                                                 !.stored = NormalizeDomain(cookie, platform),
                                                 !.injected = TRUE, !.passed = TRUE,
                                                 !.cookiesAdded = login.cookiesAdded + 1]
                     ELSE login' = [login EXCEPT !.idx = login.idx + 1, !.cookie = cookie,
                                                 !.injected = FALSE, !.passed = TRUE,
                                                 !.cookiesFailed = login.cookiesFailed + 1]
    /\ UNCHANGED <<platform, creds, run, race, pollVars, oracleVars, flowVars, stageVars>>

\* One iteration of `for (const cookie of credentials.cookies)`: the cookie has
\* the name the list gives it; its other fields are chosen when it is read.
InjectCookie ==
    /\ run.pc = "cookieLoop"
    /\ login.idx < creds.numCookies
    /\ \E cookie \in CookiesNamed(creds.cookies[login.idx + 1]), addOk \in BOOLEAN :
          /\ cookie \in Cookies
          /\ IF CookieInvalid(cookie)
             THEN /\ login' = [login EXCEPT !.idx = login.idx + 1, !.cookie = cookie,
                                            !.injected = FALSE, !.passed = FALSE,
                                            !.cookiesFailed = login.cookiesFailed + 1]
                  /\ UNCHANGED browser
             ELSE /\ browser' = [browser EXCEPT !.addCookieCalls = browser.addCookieCalls + 1,
                                                !.addCookieOk = browser.addCookieOk
                                                                + (IF addOk THEN 1 ELSE 0)]
                  /\ IF addOk
                     THEN login' = [login EXCEPT !.idx = login.idx + 1, !.cookie = cookie,
                                                 !.stored = NormalizeDomain(cookie, platform),
                                                 !.injected = TRUE, !.passed = TRUE,
                                                 !.cookiesAdded = login.cookiesAdded + 1]
                     ELSE login' = [login EXCEPT !.idx = login.idx + 1, !.cookie = cookie,
                                                 !.injected = FALSE, !.passed = TRUE,
                                                 !.cookiesFailed = login.cookiesFailed + 1]
    /\ UNCHANGED <<platform, creds, run, race, pollVars, oracleVars, flowVars, stageVars>>

\* `cookie` and `cookieToAdd` are locals of the loop body: gone once the loop is left.
LoopLocalsGone(l) ==
    [l EXCEPT !.cookie = NoCookie, !.stored = <<>>, !.injected = FALSE, !.passed = FALSE]

\* After the loop: `if (cookiesAdded === 0) throw new Error('Failed to add any cookies...')`
CheckCookiesNoGuard ==
    /\ run.pc = "cookieLoop"
    /\ login.idx = creds.numCookies
    /\ run' = [run EXCEPT !.pc = "refresh"]
    /\ login' = LoopLocalsGone(login)
    /\ UNCHANGED <<platform, creds, race, browser, pollVars, oracleVars, flowVars, stageVars>>

CheckCookies ==
    /\ run.pc = "cookieLoop"
    /\ login.idx = creds.numCookies
    /\ IF login.cookiesAdded = 0
       THEN /\ run' = Throw(ErrNoCookies)
            /\ login' = [LoopLocalsGone(login) EXCEPT !.outcome = "thrown"]
       ELSE /\ run' = [run EXCEPT !.pc = "refresh"]
            /\ login' = LoopLocalsGone(login)
    /\ UNCHANGED <<platform, creds, race, browser, pollVars, oracleVars, flowVars, stageVars>>

\* `await driver.navigate().refresh()`, then the race is built: the probe issues
\* getCurrentUrl and the 10 s timer is armed.
Refresh ==
    /\ run.pc = "refresh"
    /\ browser' = [browser EXCEPT !.refreshes = browser.refreshes + 1]
    /\ \/ /\ run' = [run EXCEPT !.pc = "verify"]
          /\ race' = [race EXCEPT !.probe = "url", !.timer = "armed"]
          /\ UNCHANGED login
       \/ /\ run' = Throw(ErrRefresh)
          /\ login' = [login EXCEPT !.outcome = "thrown"]
          /\ UNCHANGED race
    /\ UNCHANGED <<platform, creds, pollVars, oracleVars, flowVars, stageVars>>

\* The race settles with the first promise to settle; later settlements are ignored.
Settle(r, who, value) ==
    IF r.settled = "pending" THEN [r EXCEPT !.settled = value, !.winner = who] ELSE r

\* Probe, first half: `currentUrl = await service.getCurrentUrl()`; a matching URL
\* resolves true, a thrown error is ignored and the selector check follows.
ProbeGetUrl ==
    /\ race.probe = "url"
    /\ \E outcome \in {"match", "noMatch", "throws"} :
          race' = IF outcome = "match"
                  THEN Settle([race EXCEPT !.probe = "done"], "probe", "true")
                  ELSE [race EXCEPT !.probe = "selector"]
    /\ UNCHANGED <<platform, creds, run, login, browser, pollVars, oracleVars, flowVars, stageVars>>

\* Probe, second half: `exists = await service.elementExists(...)`; found resolves
\* true, not found or a thrown error resolves false.
ProbeSelector ==
    /\ race.probe = "selector"
    /\ \E outcome \in {"exists", "absent", "throws"} :
          race' = Settle([race EXCEPT !.probe = "done"], "probe",
                         IF outcome = "exists" THEN "true" ELSE "false")
    /\ UNCHANGED <<platform, creds, run, login, browser, pollVars, oracleVars, flowVars, stageVars>>

\* `setTimeout(() => resolve(false), 10000)`
TimerFires ==
    /\ race.timer = "armed"
    /\ race' = Settle([race EXCEPT !.timer = "fired"], "timer", "false")
    /\ UNCHANGED <<platform, creds, run, login, browser, pollVars, oracleVars, flowVars, stageVars>>

\* `loggedIn = await verificationPromise; if (loggedIn) return; else return;`
AcceptLoginStrict ==
    /\ run.pc = "verify"
    /\ race.settled # "pending"
    /\ IF race.settled = "true"
       THEN /\ login' = [login EXCEPT !.loggedIn = TRUE, !.outcome = "returned"]
            /\ run' = [run EXCEPT !.pc = "workflow"]
       ELSE /\ login' = [login EXCEPT !.outcome = "thrown"]
            /\ run' = Throw(ErrLoginNotVerified)
    /\ UNCHANGED <<platform, creds, race, browser, pollVars, oracleVars, flowVars, stageVars>>

AcceptLogin ==
    /\ run.pc = "verify"
    /\ race.settled # "pending"
    /\ login' = [login EXCEPT !.loggedIn = (race.settled = "true"), !.outcome = "returned"]
    /\ run' = [run EXCEPT !.pc = "workflow"]
    /\ UNCHANGED <<platform, creds, race, browser, pollVars, oracleVars, flowVars, stageVars>>

\* Email and password login, up to the redirect: navigate to the site, open the
\* login form, fill email and password, submit, `waitForUrl(/quora\.com/, 30000)`.
\* Any of these steps can throw; the form was submitted once the submit click returned.
CredentialLogin ==
    /\ run.pc = "credLogin"
    /\ browser' = [browser EXCEPT !.navigations = browser.navigations + 1]
    /\ \E outcome \in {"formThrows", "redirectThrows", "redirected"} :
          CASE outcome = "formThrows" ->
                  /\ run' = Throw(ErrLoginForm)
                  /\ login' = [login EXCEPT !.outcome = "thrown"]
            [] outcome = "redirectThrows" ->
                  /\ run' = Throw(ErrLoginForm)
                  /\ login' = [login EXCEPT !.submitted = TRUE, !.outcome = "thrown"]
            [] outcome = "redirected" ->
                  /\ run' = [run EXCEPT !.pc = "credVerify"]
                  /\ login' = [login EXCEPT !.submitted = TRUE]
    /\ UNCHANGED <<platform, creds, race, pollVars, oracleVars, flowVars, stageVars>>

\* `const loggedIn = await service.elementExists('[data-testid="user-menu"], .UserMenu');
\*  if (!loggedIn) throw new Error('Failed to verify Quora login - may need CAPTCHA or 2FA')`
\* elementExists answers false when the lookup fails.
CredentialVerifyLenient ==
    /\ run.pc = "credVerify"
    /\ \E found \in BOOLEAN :
          /\ login' = [login EXCEPT !.indicator = IF found THEN "found" ELSE "absent",
                                    !.loggedIn = found, !.outcome = "returned"]
          /\ run' = [run EXCEPT !.pc = "workflow"]
    /\ UNCHANGED <<platform, creds, race, browser, pollVars, oracleVars, flowVars, stageVars>>

CredentialVerify ==
    /\ run.pc = "credVerify"
    /\ \E found \in BOOLEAN :
          IF found
          THEN /\ login' = [login EXCEPT !.indicator = "found", !.loggedIn = TRUE,
                                         !.outcome = "returned"]
               /\ run' = [run EXCEPT !.pc = "workflow"]
          ELSE /\ login' = [login EXCEPT !.indicator = "absent", !.outcome = "thrown"]
               /\ run' = Throw(ErrLoginNotVerified)
    /\ UNCHANGED <<platform, creds, race, browser, pollVars, oracleVars, flowVars, stageVars>>

\* What each entry point returns when it succeeds, and from its catch block:
\* publish and verify return {success, error, ...}; track returns metrics that
\* carry an `error` field on failure and have no success field.
\* `error.message || 'Failed to publish to Quora'`
ErrDefault == "Failed to publish"
ErrorMessage(msg) == IF msg = "" THEN ErrDefault ELSE msg

SuccessValue(op, url) ==
    [success |-> IF op = "track" THEN "absent" ELSE "true", error |-> "",
     screenshot |-> "none", url |-> url, postId |-> <<>>, verified |-> "absent"]

\* `return { success: true, url: publishedUrl, postId }` of createQuoraPost and
\* publishToMedium.
PublishedValue(url, postId) == [SuccessValue("publish", url) EXCEPT !.postId = postId]

FailureValue(op, msg, shot) ==
    [success |-> IF op = "track" THEN "absent" ELSE "false", error |-> ErrorMessage(msg),
     screenshot |-> shot, url |-> <<>>, postId |-> <<>>, verified |-> "absent"]

\* The stages after login: answerQuestion / createQuoraPost / the Medium story flow
\* for publish, the 3 s verification race for verify, navigation to the post and
\* the metrics extraction for track.
Workflow ==
    /\ run.pc = "workflow"
    /\ browser' = [browser EXCEPT !.stagesRun = TRUE]
    /\ \/ \E verified \in (IF run.op = "verify" THEN {"true", "false"} ELSE {"absent"}) :
             run' = [run EXCEPT !.pc = "finally",
                                !.result = [SuccessValue(run.op,
                                               IF run.op = "publish" THEN <<"post">> ELSE <<>>)
                                            EXCEPT !.verified = verified]]
       \/ run' = Throw(ErrWorkflow)
    /\ UNCHANGED <<platform, creds, login, race, pollVars, oracleVars, flowVars, stageVars>>

\* publish: `catch (error) { let screenshot; try { screenshot = await
\*   service.takeScreenshot() } catch (e) {} return { success: false,
\*   error: error.message || '...', screenshot } }`; takeScreenshot throws
\* 'WebDriver not initialized' without a driver and can fail with one.
\* verify and track: `catch (error) { return {..., error: error.message || '...'} }`.
\* Outcomes of `await service.takeScreenshot()`.
ShotOutcomes == IF browser.driver THEN {"png", "failed"} ELSE {"failed"}

CatchScreenshotMasks ==
    /\ run.pc = "catch"
    /\ IF run.op = "publish"
       THEN \E shot \in ShotOutcomes :
               /\ run' = [run EXCEPT !.pc = "finally",
                                     !.result = FailureValue(run.op,
                                                    IF shot = "failed"
                                                    THEN "WebDriver not initialized"
                                                    ELSE run.error,
                                                    IF shot = "png" THEN "png" ELSE "none")]
               /\ browser' = [browser EXCEPT !.shot = shot]
       ELSE /\ run' = [run EXCEPT !.pc = "finally",
                                  !.result = FailureValue(run.op, run.error, "none")]
            /\ UNCHANGED browser
    /\ UNCHANGED <<platform, creds, login, race, pollVars, oracleVars, flowVars, stageVars>>

CatchScreenshotEscapes ==
    /\ run.pc = "catch"
    /\ IF run.op = "publish"
       THEN \E shot \in ShotOutcomes :
               /\ run' = IF shot = "failed"
                         THEN [run EXCEPT !.pc = "finally"]
                         ELSE [run EXCEPT !.pc = "finally",
                                          !.result = FailureValue(run.op, run.error, "png")]
               /\ browser' = [browser EXCEPT !.shot = shot]
       ELSE /\ run' = [run EXCEPT !.pc = "finally",
                                  !.result = FailureValue(run.op, run.error, "none")]
            /\ UNCHANGED browser
    /\ UNCHANGED <<platform, creds, login, race, pollVars, oracleVars, flowVars, stageVars>>

Catch ==
    /\ run.pc = "catch"
    /\ IF run.op = "publish"
       THEN \E shot \in ShotOutcomes :
               /\ run' = [run EXCEPT !.pc = "finally",
                                     !.result = FailureValue(run.op, run.error,
                                                    IF shot = "png" THEN "png" ELSE "none")]
               /\ browser' = [browser EXCEPT !.shot = shot]
       ELSE /\ run' = [run EXCEPT !.pc = "finally",
                                  !.result = FailureValue(run.op, run.error, "none")]
            /\ UNCHANGED browser
    /\ UNCHANGED <<platform, creds, login, race, pollVars, oracleVars, flowVars, stageVars>>

\* `finally { await service.cleanup() }`, then the function returns (or rethrows
\* what escaped the catch block).  cleanup(): `try { await this.close() } catch
\* (error) { console.error(...) }`; close(): `if (this.driver) { await
\* this.driver.quit(); this.driver = null }`.
\* cleanup() without its try/catch: a failing `driver.quit()` leaves the finally
\* block as an exception, which replaces the value being returned.
CleanupRaisesQuitFailure ==
    /\ run.pc = "finally"
    /\ \E quitOk \in (IF browser.driver THEN BOOLEAN ELSE {TRUE}) :
          /\ browser' = [browser EXCEPT !.cleanups = browser.cleanups + 1,
                                        !.driver = browser.driver /\ ~quitOk,
                                        !.closed = browser.driver /\ quitOk]
          /\ run' = [run EXCEPT !.pc = IF run.result.success = "unset" \/ ~quitOk
                                       THEN "escaped" ELSE "done",
                                !.result = IF quitOk THEN run.result ELSE NoResult]
    /\ UNCHANGED <<platform, creds, login, race, pollVars, oracleVars, flowVars, stageVars>>

CleanupSkippedOnFailure ==
    /\ run.pc = "finally"
    /\ run' = [run EXCEPT !.pc = "done"]
    /\ IF run.result.error # ""
       THEN UNCHANGED browser
       ELSE browser' = [browser EXCEPT !.cleanups = browser.cleanups + 1,
                                       !.driver = FALSE, !.closed = browser.driver]
    /\ UNCHANGED <<platform, creds, login, race, pollVars, oracleVars, flowVars, stageVars>>

Cleanup ==
    /\ run.pc = "finally"
    /\ run' = [run EXCEPT !.pc = IF run.result.success = "unset" THEN "escaped" ELSE "done"]
    /\ \E quitOk \in (IF browser.driver THEN BOOLEAN ELSE {TRUE}) :
          browser' = [browser EXCEPT !.cleanups = browser.cleanups + 1,
                                     !.driver = browser.driver /\ ~quitOk,
                                     !.closed = browser.driver /\ quitOk]
    /\ UNCHANGED <<platform, creds, login, race, pollVars, oracleVars, flowVars, stageVars>>

PublishNext ==
    \/ QuickValidate \/ CreateService \/ Initialize \/ LoginStart \/ LoginNavigate \/ InjectCookie \/ CheckCookies
    \/ Refresh \/ ProbeGetUrl \/ ProbeSelector \/ TimerFires \/ AcceptLogin
    \/ CredentialLogin \/ CredentialVerify \/ Workflow \/ Catch \/ Cleanup

SpecPublish == PublishInit /\ [][PublishNext]_vars

----------------------------------------------------------------------------
(* Properties of cookie-based login. *)

NoCookieInjected ==
    /\ creds.numCookies > 0
    /\ login.idx = creds.numCookies
    /\ login.cookiesAdded = 0
    /\ run.pc # "cookieLoop"

\* C9: when no cookie at all was injected, login fails with the no-cookies error:
\* the page is never reloaded, the verification race is never started, no later
\* stage runs, and the run's result is the failure carrying that error.
C9_NoCookieInjectedFailsLogin ==
    NoCookieInjected =>
        /\ login.outcome = "thrown"
        /\ run.error = ErrNoCookies
        /\ run.pc \in {"catch", "finally", "done"}
        /\ browser.refreshes = 0
        /\ race.probe = "idle" /\ race.timer = "idle" /\ race.settled = "pending"
        /\ ~browser.stagesRun
        /\ run.pc \in {"finally", "done"} =>
              \E shot \in {"png", "none"} :
                  run.result = FailureValue(run.op, ErrNoCookies, shot)

C9_Witness ==
    /\ NoCookieInjected
    /\ run.pc = "done"
    /\ login.cookiesFailed = 2
    /\ browser.addCookieCalls = 1

\* C10: once the verification race has been started (so at least one cookie was
\* injected), login never throws: while login waits the race can still settle, and
\* whatever settles it (the probe with true or false, or the timer) login returns.
C10_CookieLoginAcceptedWhateverTheRace ==
    race.timer # "idle" =>
        /\ login.cookiesAdded >= 1
        /\ login.outcome # "thrown"
        /\ run.error \notin {ErrLoginNotVerified, ErrNoCookies, ErrNoCredentials}
        /\ run.pc = "verify" =>
              /\ login.outcome = "pending"
              /\ race.settled # "pending" \/ race.timer = "armed"
        /\ run.pc # "verify" =>
              /\ login.outcome = "returned"
              /\ race.settled # "pending"
              /\ login.loggedIn = (race.settled = "true")

C10_Witness ==
    /\ login.outcome = "returned"
    /\ race.winner = "timer"
    /\ race.probe = "selector"
    /\ ~login.loggedIn
    /\ run.pc = "done" /\ run.result.success = "true"

----------------------------------------------------------------------------
(* Properties of credential login and of the credential precondition. *)

\* Login ran with no cookies supplied and both email and password present.
CredentialBased == creds.numCookies = 0 /\ creds.email /\ creds.password

\* C11: in credential-based login (no cookies, email and password present), login
\* returns only when the form was submitted and the logged-in indicator was then
\* found; when the indicator is absent login throws the not-verified error, no
\* later stage runs and the run reports that error.
C11_CredentialLoginNeedsIndicator ==
    (CredentialBased /\ login # LoginStartState) =>
        /\ login.outcome = "returned" =>
              login.submitted /\ login.indicator = "found" /\ login.loggedIn
        /\ login.indicator = "absent" =>
              /\ login.submitted
              /\ login.outcome = "thrown"
              /\ run.error = ErrLoginNotVerified
              /\ ~browser.stagesRun
              /\ run.pc \in {"finally", "done"} =>
                    run.result.success # "true" /\ run.result.error = ErrLoginNotVerified
        /\ browser.stagesRun => login.indicator = "found"

C11_Witness ==
    /\ CredentialBased
    /\ run.op = "publish"
    /\ login.submitted /\ login.indicator = "absent"
    /\ run.pc = "done"
    /\ run.result.success = "false" /\ run.result.error = ErrLoginNotVerified

\* Every cookie of the credentials was found without a name or without a value:
\* the loop read them all and called addCookie for none.
ZeroValidCookies ==
    /\ login.idx = creds.numCookies
    /\ login.cookiesFailed = creds.numCookies
    /\ browser.addCookieCalls = 0

\* C12: when the credentials hold zero valid cookies and no password, login fails
\* with an authentication error, and no navigation of the browser has been
\* performed when the error is raised.
C12_NoCredentialsFailsBeforeNavigation ==
    (login.outcome # "pending" /\ ZeroValidCookies /\ ~creds.password) =>
        /\ login.outcome = "thrown"
        /\ run.error \in {ErrNoCredentials, ErrNoCookies}
        /\ browser.navigations = 0

----------------------------------------------------------------------------
(* Properties of the workflow boundary: catch block, screenshot, teardown. *)

\* The run failed: an error was thrown inside the try block.
RunFailed == run.error # ""

\* C18: no exception escapes an entry point.  Whatever stage throws
\* (initialization, login, a later stage), publish, verify and track end by
\* returning a value: the failure value of the entry point, carrying the message
\* of the error thrown, when a stage failed, and a value without error otherwise.
C18_NoExceptionEscapes ==
    /\ run.pc # "escaped"
    /\ run.pc \in {"entry", "init", "login", "loginNav", "cookieLoop", "refresh", "verify",
                   "credLogin", "credVerify", "workflow", "catch", "finally", "done"}
    /\ run.pc = "catch" => RunFailed
    /\ run.pc \in {"finally", "done"} =>
          IF RunFailed
          THEN /\ run.result.success = (IF run.op = "track" THEN "absent" ELSE "false")
               /\ run.result.error = run.error
          ELSE /\ run.result.success = (IF run.op = "track" THEN "absent" ELSE "true")
               /\ run.result.error = ""

C18_Witness ==
    /\ run.pc = "done"
    /\ run.op = "track"
    /\ run.error = ErrWorkflow
    /\ run.result.error = ErrWorkflow
    /\ login.cookiesAdded = 1

\* C19: when a publish run fails and the screenshot cannot be captured, which is
\* always so when no driver was built, the failure of the screenshot is swallowed:
\* the result has success=false, the message of the stage failure as its error,
\* and no screenshot.
C19_ScreenshotFailureSwallowed ==
    /\ (run.op = "publish" /\ run.pc = "finally" /\ RunFailed /\ ~browser.driver) =>
          browser.shot = "failed"
    /\ (run.op = "publish" /\ browser.shot = "failed") =>
          /\ RunFailed
          /\ run.pc \in {"finally", "done"}
          /\ run.result.success = "false"
          /\ run.result.error = run.error
          /\ run.result.error \in {ErrInit, ErrNavigate, ErrNoCookies, ErrRefresh,
                                   ErrNoCredentials, ErrLoginForm, ErrLoginNotVerified,
                                   ErrWorkflow}
          /\ run.result.screenshot = "none"

C19_Witness ==
    /\ run.op = "publish"
    /\ run.pc = "done"
    /\ run.error = ErrInit /\ ~browser.initialized
    /\ browser.shot = "failed"
    /\ run.result = FailureValue("publish", ErrInit, "none")

\* C20: in every run that created a browser service cleanup() is invoked exactly
\* once, as the last step before the function returns, on success and on every
\* failure alike (initialization failure included); in a failed publish run it is
\* invoked after the screenshot attempt.  A run that created no service (verify
\* with cookies) invokes none.
C20_CleanupExactlyOnce ==
    /\ browser.cleanups <= 1
    /\ run.pc = "done" => browser.cleanups = (IF browser.created THEN 1 ELSE 0)
    /\ run.pc # "done" => browser.cleanups = 0
    /\ (browser.cleanups = 1 /\ run.op = "publish" /\ RunFailed) =>
          browser.shot # "unattempted"
    /\ browser.shot # "unattempted" => run.pc \in {"finally", "done"}

C20_Witness ==
    /\ run.pc = "done"
    /\ run.op = "verify"
    /\ run.error = ErrInit
    /\ browser.created /\ ~browser.initialized
    /\ browser.cleanups = 1

\* C21: a failure of `driver.quit()` during cleanup is never raised and never
\* changes the outcome: the step that runs cleanup() ends the run as returned
\* ("done"), with the result the try or catch block had built, whether the quit
\* succeeded or not.
C21_CleanupFailureKeepsOutcome ==
    [][browser'.cleanups # browser.cleanups =>
          /\ run'.pc = "done"
          /\ run'.result = run.result
          /\ run'.error = run.error]_vars

\* A run whose quit failed (the driver is still held after cleanup) and which
\* returned its original login failure.
C21_Witness ==
    /\ run.pc = "done"
    /\ browser.cleanups = 1
    /\ browser.driver /\ ~browser.closed
    /\ run.result.success = "false"
    /\ run.result.error = ErrNoCookies

\* The cookie loop has been left: what follows it has happened.
CookieLoopLeft == browser.refreshes > 0 \/ run.error = ErrNoCookies

\* C26: a cookie without a name or a value is never passed to addCookie and is
\* counted as failed, not as injected; injected + failed is the number of cookies
\* read so far, hence the number supplied once the loop is left; and the injected
\* count is the number of addCookie calls that returned without error.
C26_CookieAccounting ==
    /\ (login.cookie # NoCookie /\ CookieInvalid(login.cookie)) =>
           ~login.passed /\ ~login.injected
    /\ login.cookiesAdded + login.cookiesFailed = login.idx
    /\ login.idx <= creds.numCookies
    /\ CookieLoopLeft => login.cookiesAdded + login.cookiesFailed = creds.numCookies
    /\ login.cookiesAdded = browser.addCookieOk
    /\ browser.addCookieOk <= browser.addCookieCalls
    /\ browser.addCookieCalls <= login.idx

\* Two cookies supplied: one skipped or rejected, one injected, and the loop left.
C26_Witness ==
    /\ run.pc = "refresh"
    /\ creds.numCookies = 2
    /\ login.cookiesAdded = 1 /\ login.cookiesFailed = 1
    /\ browser.addCookieOk = 1

----------------------------------------------------------------------------
(* createQuoraPost from the window-handle snapshot to its return: new-tab      *)
(* detection and confirmation of the published URL.                            *)

\* Windows the browser may hold; handles are numbered in creation order, and
\* getAllWindowHandles lists them in that order.
MaxTabs == 3

\* Iterations of `for (let i = 0; i < 10; i++)` that re-read the new tab's URL.
UrlPolls == 10

\* Iterations of `for (let i = 0; i < 15; i++)` that ask whether the modal is open.
ModalPolls == 15

NullHandle == 0
NullUrl == <<>>

\* URLs as sequences of tokens; a literal the code searches for is a token
\* sequence as well: '/profile/' is "/", "profile", "/".
QuoraHome == <<"https://www.quora.com">>
AboutBlank == <<"about:blank">>
Urls ==
    { AboutBlank,
      QuoraHome,
      QuoraHome \o <<"/">>,
      QuoraHome \o <<"/", "?", "target_type=post">>,
      QuoraHome \o <<"/", "search">>,
      QuoraHome \o <<"/", "profile", "/">>,
      QuoraHome \o <<"/", "profile", "/", "User">>,
      QuoraHome \o <<"/", "profile", "/", "User", "/">>,
      QuoraHome \o <<"/", "profile", "/", "User", "?", "oid=", "1">>,
      QuoraHome \o <<"/", "profile", "/", "User", "/", "Post-1">>,
      QuoraHome \o <<"/", "Space", "/", "posts", "/", "1">>,
      QuoraHome \o <<"/", "q", "/", "space", "/", "Title">>,
      QuoraHome \o <<"/", "Question", "/", "answer", "/", "User">> }

\* `s.split(sep)[1]`: what lies between the first and the second occurrence of
\* sep, undefined (here NullUrl, falsy as well) when sep does not occur.
SplitSecond(s, sep) ==
    LET i == IndexOfFrom(s, sep, 0)
    IN  IF i = -1 THEN NullUrl
        ELSE LET rest == SubSeq(s, i + Len(sep) + 1, Len(s))
                 j == IndexOfFrom(rest, sep, 0)
             IN  IF j = -1 THEN rest ELSE SubSeq(rest, 1, j)

\* `part.split('/').length`
SplitSlashLength(part) == Cardinality({k \in 1..Len(part) : part[k] = "/"}) + 1

ProfilePrefix == <<"/", "profile", "/">>

\* `const isPostUrl = publishedUrl.includes('/posts/') ||
\*    publishedUrl.includes('target_type=post') || publishedUrl.includes('oid=') ||
\*    (publishedUrl.includes('/profile/') && urlParts[1] && urlParts[1].split('/').length >= 2)`
IsPostUrl(publishedUrl) ==
    LET urlParts1 == SplitSecond(publishedUrl, ProfilePrefix)
    IN  \/ Includes(publishedUrl, <<"/", "posts", "/">>)
        \/ Includes(publishedUrl, <<"target_type=post">>)
        \/ Includes(publishedUrl, <<"oid=">>)
        \/ /\ Includes(publishedUrl, ProfilePrefix)
           /\ urlParts1 # NullUrl
           /\ SplitSlashLength(urlParts1) >= 2

\* `publishedUrl === 'https://www.quora.com/' || publishedUrl === 'https://www.quora.com'`
IsHomepageUrl(publishedUrl) ==
    publishedUrl = QuoraHome \o <<"/">> \/ publishedUrl = QuoraHome

\* `publishedUrl.includes('/profile/') && urlParts[1] && urlParts[1].split('/').length < 2`
IsProfileUrl(publishedUrl) ==
    LET urlParts1 == SplitSecond(publishedUrl, ProfilePrefix)
    IN  /\ Includes(publishedUrl, ProfilePrefix)
        /\ urlParts1 # NullUrl
        /\ SplitSlashLength(urlParts1) < 2

\* The text from position `from` up to the next '/' (or the end): what `[^\/]+`
\* matches there.
UpToSlash(s, from) ==
    LET stops == {k \in from..Len(s) : s[k] = "/"}
        end == IF stops = {} THEN Len(s)
               ELSE (CHOOSE k \in stops : \A j \in stops : k <= j) - 1
    IN  SubSeq(s, from, end)

\* `const urlMatch = publishedUrl.match(/\/(posts|answer|q)\/([^\/]+)/);
\*  const postId = urlMatch ? urlMatch[2] : undefined;`: the leftmost match.
QuoraPostId(url) ==
    LET hits == {k \in 1..Len(url) :
                    /\ k + 3 <= Len(url)
                    /\ url[k] = "/"
                    /\ url[k + 1] \in {"posts", "answer", "q"}
                    /\ url[k + 2] = "/"
                    /\ url[k + 3] # "/"}
    IN  IF hits = {} THEN <<>>
        ELSE UpToSlash(url, (CHOOSE k \in hits : \A j \in hits : k <= j) + 3)

ErrPostNotClicked == "Could not find or click the blue 'Post' button in modal"
ErrModalScript == "modal script failed"
ErrNoNewTab == "No new tab was opened after clicking Post"
ErrNoPublishedUrl == "Failed to get published post URL from the new tab"
ErrHomepage == "New tab is still on homepage"
ErrProfileOnly == "New tab contains a profile URL, not a post URL"

\* `for (const handle of allHandles) { if (handle !== initialTabHandle)
\*    { newTabHandle = handle; break; } }`
FirstOtherHandle(allHandles, initialTabHandle) ==
    LET others == {k \in 1..Len(allHandles) : allHandles[k] # initialTabHandle}
    IN  IF others = {} THEN NullHandle
        ELSE allHandles[CHOOSE k \in others : \A o \in others : k <= o]

\* The run has logged in, opened the post modal and filled it; the browser holds
\* one window or several, one of them focused: the tab the post is composed in.
QuoraPostInit ==
    /\ platform = "quora"
    /\ creds = OneSessionCookie(platform)
    /\ run = [op |-> "publish", pc |-> "snapshot", error |-> "", result |-> NoResult]
    /\ login = [LoginStartState EXCEPT !.idx = 1, !.cookiesAdded = 1, !.outcome = "returned"]
    /\ race = [probe |-> "done", timer |-> "armed", settled |-> "true", winner |-> "probe"]
    /\ browser = [NoBrowser EXCEPT !.created = TRUE, !.driver = TRUE, !.initialized = TRUE,
                                   !.navigations = 1, !.refreshes = 1, !.addCookieCalls = 1,
                                   !.stagesRun = TRUE]
    /\ \E n \in 1..(MaxTabs - 1), c \in 1..(MaxTabs - 1) :
          /\ c <= n
          /\ tabs = [handles |-> [k \in 1..n |-> k], current |-> c, origin |-> c]
    /\ post = [initialHandles |-> <<>>, initialTabHandle |-> NullHandle,
               allHandles |-> <<>>, newTabHandle |-> NullHandle,
               publishedUrl |-> NullUrl, urlFrom |-> NullHandle, readUrl |-> NullUrl,
               reads |-> {}, switches |-> 0, i |-> 0, readFailed |-> FALSE, m |-> 0]
    /\ story = "idle"
    /\ PollIdle
    /\ OracleIdle
    /\ StageIdle

\* `const initialHandles = await driver.getAllWindowHandles();
\*  const initialTabHandle = initialHandles[initialHandles.length - 1];`
SnapshotHandles ==
    /\ run.pc = "snapshot"
    /\ post' = [post EXCEPT !.initialHandles = tabs.handles,
                            !.initialTabHandle = tabs.handles[Len(tabs.handles)]]
    /\ run' = [run EXCEPT !.pc = "submit"]
    /\ UNCHANGED <<platform, creds, login, race, browser, tabs, story, pollVars, oracleVars, stageVars>>

\* The Post button of the modal is clicked and the modal is awaited; the site
\* opens new windows (none, one or several).  `if (!postClicked) throw ...`
SubmitPost ==
    /\ run.pc = "submit"
    /\ \/ /\ run' = Throw(ErrPostNotClicked)
          /\ UNCHANGED tabs
       \/ /\ run' = [run EXCEPT !.pc = "modal"]
          /\ \E m \in Len(tabs.handles)..MaxTabs :
                tabs' = [tabs EXCEPT !.handles = [k \in 1..m |-> k]]
    /\ UNCHANGED <<platform, creds, login, race, browser, post, story, pollVars, oracleVars, stageVars>>

\* One iteration of `for (let i = 0; i < 15; i++) { ... modalStillOpen = await
\*  service.executeScript(...); if (!modalStillOpen) { modalClosed = true; break; } }`;
\* the script is outside any try of createQuoraPost.
AwaitModalClosed ==
    /\ run.pc = "modal"
    /\ post.m < ModalPolls
    /\ \/ \E modalStillOpen \in BOOLEAN :
             /\ post' = [post EXCEPT !.m = post.m + 1]
             /\ run' = IF modalStillOpen THEN run ELSE [run EXCEPT !.pc = "detect"]
       \/ /\ run' = Throw(ErrModalScript)
          /\ UNCHANGED post
    /\ UNCHANGED <<platform, creds, login, race, browser, tabs, story, pollVars, oracleVars, stageVars>>

\* Once more from the start when the modal has not closed.
ModalStillOpenRestarts ==
    /\ run.pc = "modal"
    /\ post.m = ModalPolls
    /\ post' = [post EXCEPT !.m = 0]
    /\ UNCHANGED <<platform, creds, run, login, race, browser, tabs, story, pollVars, oracleVars, stageVars>>

\* `if (!modalClosed) console.warn("Modal didn't close, but continuing to check
\*  for new tab...")`: the loop ran all its iterations.
ModalStillOpen ==
    /\ run.pc = "modal"
    /\ post.m = ModalPolls
    /\ run' = [run EXCEPT !.pc = "detect"]
    /\ UNCHANGED <<platform, creds, login, race, browser, tabs, post, story, pollVars, oracleVars, stageVars>>

\* `const allHandles = await driver.getAllWindowHandles();` and the search for a
\* handle other than initialTabHandle.
DetectNewTab ==
    /\ run.pc = "detect"
    /\ post' = [post EXCEPT !.allHandles = tabs.handles,
                            !.newTabHandle = FirstOtherHandle(tabs.handles, post.initialTabHandle)]
    /\ run' = [run EXCEPT !.pc = "switch"]
    /\ UNCHANGED <<platform, creds, login, race, browser, tabs, story, pollVars, oracleVars, stageVars>>

\* What a URL read after detection does to the locals: it is made in the focused
\* window.
ReadIn(p, t) == [p EXCEPT !.reads = p.reads \cup {t.current}]

\* `if (newTabHandle) { try { await driver.switchTo().window(newTabHandle); ...
\*    publishedUrl = await driver.getCurrentUrl(); ... } catch (e) { publishedUrl = null } }
\*  else { throw new Error("No new tab was opened after clicking Post...") }`
SwitchToNewTab ==
    /\ run.pc = "switch"
    /\ IF post.newTabHandle = NullHandle
       THEN /\ run' = Throw(ErrNoNewTab)
            /\ UNCHANGED <<tabs, post>>
       ELSE \/ /\ tabs' = [tabs EXCEPT !.current = post.newTabHandle]
               /\ \E u \in Urls :
                     post' = [ReadIn(post, tabs') EXCEPT !.switches = post.switches + 1,
                                                         !.publishedUrl = u,
                                                         !.readUrl = u,
                                                         !.urlFrom = tabs'.current]
               /\ run' = [run EXCEPT !.pc = "pollUrl"]
            \/ /\ post' = [post EXCEPT !.publishedUrl = NullUrl, !.urlFrom = NullHandle,
                                       !.readFailed = TRUE]
               /\ run' = [run EXCEPT !.pc = "final"]
               /\ UNCHANGED tabs
    /\ UNCHANGED <<platform, creds, login, race, browser, story, pollVars, oracleVars, stageVars>>

\* One iteration of the URL poll: `const currentUrl = await driver.getCurrentUrl();
\*  if (currentUrl && currentUrl !== publishedUrl && currentUrl !== 'about:blank')
\*    { publishedUrl = currentUrl; break; }`; a read that throws is caught by the
\* enclosing try: `publishedUrl = null`.
PollUrlInOriginTab ==
    /\ run.pc = "pollUrl"
    /\ post.i < UrlPolls
    /\ tabs' = [tabs EXCEPT !.current = tabs.origin]
    /\ \E currentUrl \in Urls :
          IF currentUrl # NullUrl /\ currentUrl # post.publishedUrl /\ currentUrl # AboutBlank
          THEN /\ post' = [ReadIn(post, tabs') EXCEPT !.publishedUrl = currentUrl,
                                                      !.readUrl = currentUrl,
                                                      !.urlFrom = tabs'.current,
                                                      !.i = 0]
               /\ run' = [run EXCEPT !.pc = "validate"]
          ELSE /\ post' = [ReadIn(post, tabs') EXCEPT !.i = post.i + 1]
               /\ UNCHANGED run
    /\ UNCHANGED <<platform, creds, login, race, browser, story, pollVars, oracleVars, stageVars>>

PollUrl ==
    /\ run.pc = "pollUrl"
    /\ post.i < UrlPolls
    /\ \/ \E currentUrl \in Urls :
             IF currentUrl # NullUrl /\ currentUrl # post.publishedUrl /\ currentUrl # AboutBlank
             THEN /\ post' = [ReadIn(post, tabs) EXCEPT !.publishedUrl = currentUrl,
                                                        !.readUrl = currentUrl,
                                                        !.urlFrom = tabs.current,
                                                        !.i = 0]
                  /\ run' = [run EXCEPT !.pc = "validate"]
             ELSE /\ post' = [ReadIn(post, tabs) EXCEPT !.i = post.i + 1]
                  /\ UNCHANGED run
       \/ /\ post' = [post EXCEPT !.publishedUrl = NullUrl, !.urlFrom = NullHandle, !.i = 0,
                                  !.readFailed = TRUE]
          /\ run' = [run EXCEPT !.pc = "final"]
    /\ UNCHANGED <<platform, creds, login, race, browser, tabs, story, pollVars, oracleVars, stageVars>>

\* The loop ran all its iterations without a new URL.
PollUrlExhausted ==
    /\ run.pc = "pollUrl"
    /\ post.i = UrlPolls
    /\ post' = [post EXCEPT !.i = 0]
    /\ run' = [run EXCEPT !.pc = "validate"]
    /\ UNCHANGED <<platform, creds, login, race, browser, tabs, story, pollVars, oracleVars, stageVars>>

\* `if (isPostUrl) {...} else { publishedUrl = null; throw new Error(...) }`, the
\* throw being caught by the enclosing try: `catch (e) { publishedUrl = null }`.
ValidateUrl ==
    /\ run.pc = "validate"
    /\ post' = IF IsPostUrl(post.publishedUrl)
               THEN post
               ELSE [post EXCEPT !.publishedUrl = NullUrl, !.urlFrom = NullHandle]
    /\ run' = [run EXCEPT !.pc = "final"]
    /\ UNCHANGED <<platform, creds, login, race, browser, tabs, story, pollVars, oracleVars, stageVars>>

\* `if (!publishedUrl) throw ...; if (publishedUrl === homepage) throw ...;
\*  if (profile URL with one segment) throw ...; return { success: true, url, postId }`
FinalChecksNoProfileCheck ==
    /\ run.pc = "final"
    /\ run' = IF post.publishedUrl = NullUrl THEN Throw(ErrNoPublishedUrl)
              ELSE IF IsHomepageUrl(post.publishedUrl) THEN Throw(ErrHomepage)
              ELSE [run EXCEPT !.pc = "finally",
                               !.result = PublishedValue(post.publishedUrl,
                                                         QuoraPostId(post.publishedUrl))]
    /\ UNCHANGED <<platform, creds, login, race, browser, tabs, post, story, pollVars, oracleVars, stageVars>>

\* The final checks without `if (!publishedUrl) throw`.
FinalChecksNoUrlCheck ==
    /\ run.pc = "final"
    /\ run' = IF IsHomepageUrl(post.publishedUrl) THEN Throw(ErrHomepage)
              ELSE IF IsProfileUrl(post.publishedUrl) THEN Throw(ErrProfileOnly)
              ELSE [run EXCEPT !.pc = "finally",
                               !.result = PublishedValue(post.publishedUrl,
                                                         QuoraPostId(post.publishedUrl))]
    /\ UNCHANGED <<platform, creds, login, race, browser, tabs, post, story, pollVars, oracleVars, stageVars>>

FinalChecks ==
    /\ run.pc = "final"
    /\ run' = IF post.publishedUrl = NullUrl THEN Throw(ErrNoPublishedUrl)
              ELSE IF IsHomepageUrl(post.publishedUrl) THEN Throw(ErrHomepage)
              ELSE IF IsProfileUrl(post.publishedUrl) THEN Throw(ErrProfileOnly)
              ELSE [run EXCEPT !.pc = "finally",
                               !.result = PublishedValue(post.publishedUrl,
                                                         QuoraPostId(post.publishedUrl))]
    /\ UNCHANGED <<platform, creds, login, race, browser, tabs, post, story, pollVars, oracleVars, stageVars>>

QuoraPostNext ==
    \/ SnapshotHandles \/ SubmitPost \/ AwaitModalClosed \/ ModalStillOpen \/ DetectNewTab \/ SwitchToNewTab
    \/ PollUrl \/ PollUrlExhausted \/ ValidateUrl \/ FinalChecks \/ Catch \/ Cleanup

SpecQuoraPost == QuoraPostInit /\ [][QuoraPostNext]_vars

\* Every call to the browser returns or throws: a step that can be taken is
\* eventually taken.
LiveQuoraPost == SpecQuoraPost /\ WF_vars(QuoraPostNext)

----------------------------------------------------------------------------
(* Properties of new-tab detection and confirmation. *)

HandleSet(handles) == {handles[k] : k \in 1..Len(handles)}

\* The after-submission handles were read and the new tab was looked for.
Detected == post.allHandles # <<>>

\* Handles of the after-submission list absent from the before-snapshot.
NewHandles == HandleSet(post.allHandles) \ HandleSet(post.initialHandles)

\* C13: new-tab resolution selects a handle that is in the after-submission set
\* and not in the snapshot taken before submitting, whether the snapshot held one
\* handle or several: before {A,B} and after {A,B,C} selects C.
C13_NewTabIsNewHandle ==
    (Detected /\ NewHandles # {}) =>
        /\ post.newTabHandle \in NewHandles
        /\ (post.initialHandles = <<1, 2>> /\ post.allHandles = <<1, 2, 3>>) =>
              post.newTabHandle = 3

\* C14: when no handle of the after-submission list is absent from the
\* before-snapshot, no new tab is resolved, the no-new-tab error is raised and the
\* run ends with success=false; and a successful run never returns a URL read in
\* the originating tab.
C14_NoNewTabFails ==
    /\ (Detected /\ NewHandles = {}) =>
          /\ post.newTabHandle = NullHandle
          /\ post.switches = 0
          /\ run.pc # "switch" => run.error = ErrNoNewTab
          /\ run.pc \in {"finally", "done"} =>
                run.result.success = "false" /\ run.result.error = ErrNoNewTab
    /\ run.result.success = "true" => post.urlFrom # tabs.origin

\* C15: the workflow switches window at most once; once it has switched, the
\* focused window stays the handle it switched to, every URL read since was made
\* in that window, and the returned URL was read there.
C15_ReadsOnlyInSwitchedTab ==
    /\ post.switches <= 1
    /\ post.switches = 0 => post.reads = {} /\ tabs.current = tabs.origin
    /\ post.switches = 1 =>
          /\ tabs.current = post.newTabHandle
          /\ post.reads = {post.newTabHandle}
          /\ post.urlFrom \in {NullHandle, post.newTabHandle}
          /\ run.result.success = "true" =>
                post.urlFrom = post.newTabHandle /\ run.result.url = post.readUrl

C15_Witness ==
    /\ run.pc = "done" /\ run.result.success = "true"
    /\ post.switches = 1
    /\ post.initialHandles = <<1>> /\ post.allHandles = <<1, 2>>
    /\ tabs.current = 2 /\ tabs.origin = 1
    /\ post.reads = {2}
    /\ run.result.url = QuoraHome \o <<"/", "profile", "/", "User", "/", "Post-1">>

\* The site homepage, with or without the trailing "/".
SiteHomepage(u) == u \in {QuoraHome, QuoraHome \o <<"/">>}

\* A URL under the '/profile/' prefix with fewer than two "/"-separated segments
\* after the prefix.
ProfileOnly(u) ==
    LET head == QuoraHome \o ProfilePrefix
    IN  /\ Len(u) >= Len(head)
        /\ SubSeq(u, 1, Len(head)) = head
        /\ Cardinality({k \in (Len(head) + 1)..Len(u) : u[k] = "/"}) < 1

----------------------------------------------------------------------------
(* publishToMedium from the 'Publish now' click to its return: confirmation    *)
(* of the published URL in the same window.                                    *)

MediumHome == <<"https://medium.com">>

\* '/edit'
EditSuffix == <<"/", "edit">>

\* URLs the window can show while the story is being confirmed.
MediumUrls ==
    { MediumHome \o <<"/", "new-story">>,
      MediumHome \o <<"/", "p", "/", "abc", "/", "edit">>,
      MediumHome \o <<"/", "p", "/", "abc">>,
      MediumHome \o <<"/", "@user", "/", "my-story-abc">>,
      MediumHome \o <<"/", "@user", "/", "my-story-abc", "/", "edit">>,
      MediumHome \o <<"/", "@user", "/", "edit", "-tips">>,
      MediumHome \o <<"/", "me", "/", "stories", "/", "drafts">> }

\* /medium\.com\/@[\w-]+\/[\w-]+(?!\/edit)/.test(url): a user segment and a story
\* segment follow the host.  The lookahead does not exclude a following '/edit':
\* the story segment's `+` backtracks by one character, after which the next
\* character is not '/'.
MatchesPublishedPattern(url) ==
    /\ Len(url) >= 5
    /\ SubSeq(url, 1, 2) = MediumHome \o <<"/">>
    /\ url[3] = "@user"
    /\ url[4] = "/"
    /\ url[5] \notin {"/", "?"}

\* `publishedUrl.match(/\/p\/([^\/]+)/)?.[1]` is defined.
HasPostId(url) ==
    LET k == IndexOfFrom(url, <<"/", "p", "/">>, 0)
    IN  k # -1 /\ Len(url) >= k + 4 /\ url[k + 4] # "/"

\* `publishedUrl.replace('/edit', '')`: the first occurrence is removed.
RemoveEdit(url) ==
    LET k == IndexOfFrom(url, EditSuffix, 0)
    IN  IF k = -1 THEN url
        ELSE SubSeq(url, 1, k) \o SubSeq(url, k + Len(EditSuffix) + 1, Len(url))

\* `const urlMatch = publishedUrl.match(/medium\.com\/@[\w-]+\/([\w-]+)/);
\*  const postId = urlMatch ? urlMatch[1] : undefined;`: the story segment, up to
\* the first character that is neither a word character nor '-'.
MediumPostId(url) ==
    IF MatchesPublishedPattern(url)
    THEN LET stops == {k \in 5..Len(url) : url[k] \in {"/", "?"}}
             end == IF stops = {} THEN Len(url)
                    ELSE (CHOOSE k \in stops : \A j \in stops : k <= j) - 1
         IN  SubSeq(url, 5, end)
    ELSE <<>>

ErrPublishNowNotClicked == "Failed to click 'Publish now' button in modal. Story is still in draft/edit mode."
ErrDraft == "Story was saved as draft but not published. URL still contains '/edit'"
ErrStillDraft == "Publish failed - story is still in draft/edit mode."

\* The run has logged in, written the story and opened the publish modal.
MediumStoryInit ==
    /\ platform = "medium"
    /\ creds = OneSessionCookie(platform)
    /\ run = [op |-> "publish", pc |-> "publishNow", error |-> "", result |-> NoResult]
    /\ login = [LoginStartState EXCEPT !.idx = 1, !.cookiesAdded = 1, !.outcome = "returned"]
    /\ race = [probe |-> "done", timer |-> "armed", settled |-> "true", winner |-> "probe"]
    /\ browser = [NoBrowser EXCEPT !.created = TRUE, !.driver = TRUE, !.initialized = TRUE,
                                   !.navigations = 2, !.refreshes = 1, !.addCookieCalls = 1,
                                   !.stagesRun = TRUE]
    /\ story = [publishNowClicked |-> FALSE, publishedUrl |-> NullUrl, lastUrl |-> NullUrl,
                waited |-> "no", resynced |-> FALSE]
    /\ tabs = "idle"
    /\ post = "idle"
    /\ PollIdle
    /\ OracleIdle
    /\ StageIdle

\* The 'Publish now' button of the modal is looked for and clicked.
\* `if (!publishNowClicked) { const currentUrl = await service.getCurrentUrl();
\*    if (currentUrl.includes('/edit')) throw new Error("Failed to click 'Publish
\*    now' button in modal...") }`; otherwise the run goes on to wait for the modal.
ClickPublishNow ==
    /\ run.pc = "publishNow"
    /\ \/ /\ story' = [story EXCEPT !.publishNowClicked = TRUE]
          /\ run' = [run EXCEPT !.pc = "readUrl"]
       \/ \E currentUrl \in MediumUrls :
             /\ story' = [story EXCEPT !.lastUrl = currentUrl]
             /\ run' = IF Includes(currentUrl, EditSuffix)
                       THEN Throw(ErrPublishNowNotClicked)
                       ELSE [run EXCEPT !.pc = "readUrl"]
    /\ UNCHANGED <<platform, creds, login, race, browser, tabs, post, pollVars, oracleVars, stageVars>>

\* `let publishedUrl = await service.getCurrentUrl();
\*  if (publishedUrl.includes('/edit')) { ...wait... }`
ReadPublishedUrl ==
    /\ run.pc = "readUrl"
    /\ \E u \in MediumUrls :
          /\ story' = [story EXCEPT !.publishedUrl = u, !.lastUrl = u]
          /\ run' = [run EXCEPT !.pc = IF Includes(u, EditSuffix) THEN "waitUrl"
                                                                  ELSE "finalCheck"]
    /\ UNCHANGED <<platform, creds, login, race, browser, tabs, post, pollVars, oracleVars, stageVars>>

\* `try { await service.waitForUrl(/medium\.com\/@[\w-]+\/[\w-]+(?!\/edit)/, 30000);
\*        publishedUrl = await service.getCurrentUrl(); } catch (e) { ...resync... }`
\* driver.wait re-reads the URL until the pattern matches or 30 s have passed.
WaitForPublishedUrl ==
    /\ run.pc = "waitUrl"
    /\ \/ \E seen \in {u \in MediumUrls : MatchesPublishedPattern(u)}, u \in MediumUrls :
             /\ story' = [story EXCEPT !.publishedUrl = u, !.lastUrl = u, !.waited = "matched"]
             /\ run' = [run EXCEPT !.pc = "finalCheck"]
       \/ \E last \in {u \in MediumUrls : ~MatchesPublishedPattern(u)} :
             /\ story' = [story EXCEPT !.lastUrl = last, !.waited = "timedOut"]
             /\ run' = [run EXCEPT !.pc = "resync"]
    /\ UNCHANGED <<platform, creds, login, race, browser, tabs, post, pollVars, oracleVars, stageVars>>

\* The catch of the wait: `const postId = publishedUrl.match(/\/p\/([^\/]+)/)?.[1];
\*  if (postId) { await service.navigateTo(publishedUrl.replace('/edit', ''));
\*     const newUrl = await service.getCurrentUrl();
\*     if (!newUrl.includes('/edit')) publishedUrl = newUrl; else throw ... }
\*  else throw ...`, every throw being rethrown as 'Story was saved as draft but
\* not published'.  Where the navigation lands is the site's choice.
ResyncToPublishedUrl ==
    /\ run.pc = "resync"
    /\ IF HasPostId(story.publishedUrl)
       THEN /\ browser' = [browser EXCEPT !.navigations = browser.navigations + 1]
            /\ \/ /\ run' = Throw(ErrDraft)
                  /\ story' = [story EXCEPT !.resynced = TRUE]
               \/ \E newUrl \in MediumUrls \cup {RemoveEdit(story.publishedUrl)} :
                     /\ story' = [story EXCEPT !.resynced = TRUE, !.lastUrl = newUrl,
                                               !.publishedUrl =
                                                   IF ~Includes(newUrl, EditSuffix)
                                                   THEN newUrl ELSE story.publishedUrl]
                     /\ run' = IF ~Includes(newUrl, EditSuffix)
                               THEN [run EXCEPT !.pc = "finalCheck"]
                               ELSE Throw(ErrDraft)
       ELSE /\ run' = Throw(ErrDraft)
            /\ UNCHANGED <<browser, story>>
    /\ UNCHANGED <<platform, creds, login, race, tabs, post, pollVars, oracleVars, stageVars>>

\* `if (publishedUrl.includes('/edit')) throw new Error('Publish failed - story is
\*  still in draft/edit mode...'); return { success: true, url: publishedUrl, postId }`
FinalEditCheckOmitted ==
    /\ run.pc = "finalCheck"
    /\ run' = [run EXCEPT !.pc = "finally",
                          !.result = PublishedValue(story.publishedUrl,
                                                    MediumPostId(story.publishedUrl))]
    /\ UNCHANGED <<platform, creds, login, race, browser, flowVars, pollVars, oracleVars, stageVars>>

FinalEditCheck ==
    /\ run.pc = "finalCheck"
    /\ run' = IF Includes(story.publishedUrl, EditSuffix)
              THEN Throw(ErrStillDraft)
              ELSE [run EXCEPT !.pc = "finally",
                               !.result = PublishedValue(story.publishedUrl,
                                                    MediumPostId(story.publishedUrl))]
    /\ UNCHANGED <<platform, creds, login, race, browser, flowVars, pollVars, oracleVars, stageVars>>

MediumStoryNext ==
    \/ ClickPublishNow \/ ReadPublishedUrl \/ WaitForPublishedUrl
    \/ ResyncToPublishedUrl \/ FinalEditCheck \/ Catch \/ Cleanup

SpecMediumStory == MediumStoryInit /\ [][MediumStoryNext]_vars

----------------------------------------------------------------------------
(* Property of in-place confirmation. *)

\* The URL matches the draft/edit pattern.
DraftUrl(u) == \E k \in 1..(Len(u) - 1) : u[k] = "/" /\ u[k + 1] = "edit"

\* C17: publishToMedium returns success=true only with the URL last read from the
\* window, and that URL does not match the draft/edit pattern; when the URL last
\* read for confirmation still matches it (after the polling window and the
\* resync), the run ends with success=false and a not-published error.
C17_NoSuccessOnDraftUrl ==
    /\ run.result.success = "true" =>
          /\ run.result.url = story.lastUrl
          /\ ~DraftUrl(run.result.url)
    /\ (run.pc \in {"finally", "done"} /\ story.lastUrl # NullUrl /\ DraftUrl(story.lastUrl)) =>
          /\ run.result.success = "false"
          /\ run.result.error \in {ErrPublishNowNotClicked, ErrDraft, ErrStillDraft}
          /\ run.result.url = NullUrl

C17_Witness ==
    /\ run.pc = "done"
    /\ story.publishNowClicked
    /\ story.waited = "timedOut" /\ story.resynced
    /\ story.lastUrl = MediumHome \o <<"/", "p", "/", "abc", "/", "edit">>
    /\ run.result.success = "false" /\ run.result.error = ErrDraft

----------------------------------------------------------------------------
(* The workflow after login, stage by stage: createQuoraPost and the body of   *)
(* publishToMedium.  What the page answers to each step is chosen when the     *)
(* step runs.                                                                  *)

\* The stages of the workflow, in the order of the state machine.
StageOrder ==
    <<"Authenticating", "Navigating", "LocatingEditor", "FillingTitle", "FillingBody",
      "VerifyingContent", "AttachingMedia", "AwaitingSubmitEnabled", "Submitting",
      "ConfirmingPublish">>

Rank(stage) == CHOOSE i \in 1..Len(StageOrder) : StageOrder[i] = stage

\* `const editorSelectors = ['div[contenteditable="true"]', 'textarea',
\*    'input[type="text"]', '.ql-editor']` of createQuoraPost.
NumEditorSelectors == 4
\* The script over the modals that runs `if (!contentFilled)`.
LastResort == NumEditorSelectors + 1

ErrHomePostNotClicked == "Could not find or click the 'Post' button on Quora homepage."
ErrPageInfo == "pageInfo is not defined"
ErrEditorNotFound ==
    "Failed to fill content in modal: Failed to fill content in modal. Could not find editor element."
ErrContentNotVerified ==
    "Failed to fill content in modal: Content was filled but could not be verified."
ErrFillScript == "Failed to fill content in modal: script failed"
ErrContentLost == "Content was lost before posting. Please try again."
ErrMediumNavigate == "Failed to navigate to Medium."
ErrFillTitle == "Failed to fill title"
ErrFillContent == "Failed to fill content"
ErrContentNotFilled == "Content not filled properly."
ErrPublishNotClicked == "Could not find or click the 'Publish' button in the header"
ErrTagInput == "tag input failed"
\* A driver wait (waitForElement, clickElement, fillInput) or a script that throws.
ErrDriver == "element lookup failed"

\* The workflow enters a stage: the stage is appended to the trail unless the
\* workflow is already in it.
Enter(f, stage) ==
    IF f.trail[Len(f.trail)] = stage THEN f ELSE [f EXCEPT !.trail = Append(f.trail, stage)]

WorkflowInit ==
    /\ platform \in Platforms
    /\ creds = OneSessionCookie(platform)
    /\ \E start \in (IF platform = "quora" THEN {"qNavigate", "aNavigate"} ELSE {"mNavigate"}) :
          run = [op |-> "publish", pc |-> start, error |-> "", result |-> NoResult]
    /\ login = [LoginStartState EXCEPT !.idx = 1, !.cookiesAdded = 1, !.outcome = "returned"]
    /\ race = [probe |-> "done", timer |-> "armed", settled |-> "true", winner |-> "probe"]
    /\ browser = [NoBrowser EXCEPT !.created = TRUE, !.driver = TRUE, !.initialized = TRUE,
                                   !.navigations = 1, !.refreshes = 1, !.addCookieCalls = 1,
                                   !.addCookieOk = 1]
    /\ \E img \in (IF platform = "quora" THEN BOOLEAN ELSE {FALSE}) :
          flow = [trail |-> <<"Authenticating">>, hasImage |-> img,
                  editorFound |-> "unread", submitEnabled |-> "unread",
                  buttonState |-> "unread", clicks |-> 0,
                  k |-> 1, tried |-> <<>>, winner |-> 0, injected |-> "none"]
    /\ click = "idle"
    /\ FlowIdle
    /\ PollIdle
    /\ OracleIdle

\* Step 1 of createQuoraPost: `await service.navigateTo('https://www.quora.com')`.
QuoraNavigate ==
    /\ run.pc = "qNavigate"
    /\ flow' = Enter(flow, "Navigating")
    /\ browser' = [browser EXCEPT !.navigations = browser.navigations + 1, !.stagesRun = TRUE]
    /\ \/ run' = [run EXCEPT !.pc = "qOpenComposer"]
       \/ run' = Throw(ErrNavigate)
    /\ UNCHANGED <<platform, creds, login, race, click, flowVars, pollVars, oracleVars>>

\* Steps 2 and 3: the homepage 'Post' trigger opens the modal.  The retried
\* script returns an object (a click or {clicked: false}); when the retry throws,
\* the catch block reads `pageInfo`, which is declared nowhere, and the
\* ReferenceError leaves createQuoraPost before the selector fallback.  Without
\* a click the selectors are tried; without any, the step throws.  The 'Create
\* Post' tab is then clicked when found, errors swallowed.
QuoraOpenComposer ==
    /\ run.pc = "qOpenComposer"
    /\ flow' = Enter(flow, "LocatingEditor")
    /\ \E script \in {"clicked", "notClicked", "throws"}, selectorClicked \in BOOLEAN :
          run' = IF script = "throws" THEN Throw(ErrPageInfo)
                 ELSE IF script = "clicked" \/ selectorClicked
                      THEN [run EXCEPT !.pc = "qFill"]
                      ELSE Throw(ErrHomePostNotClicked)
    /\ UNCHANGED <<platform, creds, login, race, browser, click, flowVars, pollVars, oracleVars>>

\* Step 4, one iteration of `for (const selector of editorSelectors)`:
\* `if (await service.elementExists(selector))`, `if (isInModal)`, the fill, then
\* `if (contentVerified) { contentFilled = true; break }`; an error of the iteration
\* is caught and the next selector is tried.
QuoraTryEditorSelectorNoVerify ==
    /\ run.pc = "qFill"
    /\ flow.k <= NumEditorSelectors
    /\ \E inModal \in BOOLEAN, verified \in BOOLEAN :
          LET f == Enter(flow, "FillingBody")
              t == [s |-> flow.k, acted |-> inModal, verified |-> inModal /\ verified]
          IN  IF inModal
              THEN /\ flow' = [f EXCEPT !.tried = Append(flow.tried, t), !.winner = flow.k,
                                        !.editorFound = "yes",
                                        !.injected = IF verified THEN "verified" ELSE "unverified"]
                   /\ run' = [run EXCEPT !.pc = "qImage"]
              ELSE /\ flow' = [f EXCEPT !.tried = Append(flow.tried, t), !.k = flow.k + 1]
                   /\ UNCHANGED run
    /\ UNCHANGED <<platform, creds, login, race, browser, click, flowVars, pollVars, oracleVars>>

QuoraTryEditorSelector ==
    /\ run.pc = "qFill"
    /\ flow.k <= NumEditorSelectors
    /\ \E inModal \in BOOLEAN, verified \in BOOLEAN :
          LET f == Enter(flow, "FillingBody")
              t == [s |-> flow.k, acted |-> inModal, verified |-> inModal /\ verified]
          IN  IF inModal /\ verified
              THEN /\ flow' = [f EXCEPT !.tried = Append(flow.tried, t), !.winner = flow.k,
                                        !.editorFound = "yes", !.injected = "verified"]
                   /\ run' = [run EXCEPT !.pc = "qImage"]
              ELSE /\ flow' = [f EXCEPT !.tried = Append(flow.tried, t), !.k = flow.k + 1,
                                        !.editorFound = IF inModal THEN "yes" ELSE flow.editorFound,
                                        !.injected = IF inModal THEN "unverified" ELSE flow.injected]
                   /\ UNCHANGED run
    /\ UNCHANGED <<platform, creds, login, race, browser, click, flowVars, pollVars, oracleVars>>

\* `if (!contentFilled)`: the script over the modals.  `if (filled)` the content
\* is verified, else 'Could not find editor element'; every error of the block is
\* rethrown as 'Failed to fill content in modal: ...'.
QuoraLastResort ==
    /\ run.pc = "qFill"
    /\ flow.k = LastResort
    /\ \E outcome \in {"throws", "notFilled", "unverified", "verified"} :
          LET t == [s |-> LastResort, acted |-> outcome \in {"unverified", "verified"},
                    verified |-> outcome = "verified"]
              f == [flow EXCEPT !.tried = Append(flow.tried, t), !.k = LastResort + 1]
          IN  CASE outcome = "verified" ->
                     /\ flow' = [f EXCEPT !.winner = LastResort, !.editorFound = "yes",
                                          !.injected = "verified"]
                     /\ run' = [run EXCEPT !.pc = "qImage"]
                [] outcome = "unverified" ->
                     /\ flow' = [f EXCEPT !.editorFound = "yes", !.injected = "unverified"]
                     /\ run' = Throw(ErrContentNotVerified)
                [] outcome = "notFilled" ->
                     /\ flow' = [f EXCEPT !.editorFound =
                                     IF flow.editorFound = "yes" THEN "yes" ELSE "no"]
                     /\ run' = Throw(ErrEditorNotFound)
                [] outcome = "throws" ->
                     /\ flow' = f
                     /\ run' = Throw(ErrFillScript)
    /\ UNCHANGED <<platform, creds, login, race, browser, click, flowVars, pollVars, oracleVars>>

\* Step 4.5: `if (content.metadata?.imageUrl)` the URL is pasted into the editor;
\* errors are swallowed.
QuoraAttachImage ==
    /\ run.pc = "qImage"
    /\ flow' = IF flow.hasImage THEN Enter(flow, "AttachingMedia") ELSE flow
    /\ run' = [run EXCEPT !.pc = "qAwait"]
    /\ UNCHANGED <<platform, creds, login, race, browser, click, flowVars, pollVars, oracleVars>>

\* Step 5, before the click: the handles are snapshotted, the run waits,
\* `if (!contentStillThere) throw`, and the state of the modal's Post button is
\* read (`buttonState`).
QuoraAwaitPostButton ==
    /\ run.pc = "qAwait"
    /\ \E contentStillThere \in BOOLEAN,
          state \in {"enabledBlue", "notBlue", "disabled", "notFound", "throws"} :
          IF contentStillThere
          THEN /\ flow' = [Enter(flow, "AwaitingSubmitEnabled") EXCEPT
                              !.buttonState = state,
                              !.submitEnabled = IF state = "enabledBlue" THEN "yes" ELSE "no"]
               /\ run' = [run EXCEPT !.pc = "qSubmit"]
          ELSE /\ flow' = Enter(flow, "AwaitingSubmitEnabled")
               /\ run' = Throw(ErrContentLost)
    /\ UNCHANGED <<platform, creds, login, race, browser, click, flowVars, pollVars, oracleVars>>

\* Step 5, the click: `if (found && !disabled && isBlue)` the click script runs
\* (it checks the button again and may decline); `else if (found && disabled)
\* throw`, caught by the enclosing catch.  `if (!postClicked)` the two selectors
\* are tried: each is clicked only when its element is the modal's enabled Post
\* button.  `if (!postClicked) throw`.
QuoraSubmit ==
    /\ run.pc = "qSubmit"
    /\ \E scriptClicked \in (IF flow.buttonState = "enabledBlue" THEN BOOLEAN ELSE {FALSE}),
          selectorFoundEnabled \in BOOLEAN :
          LET postClicked == scriptClicked \/ selectorFoundEnabled
              f == Enter(flow, "Submitting")
          IN  /\ flow' = [f EXCEPT !.clicks = IF postClicked THEN flow.clicks + 1 ELSE flow.clicks,
                                   !.submitEnabled = IF ~scriptClicked /\ selectorFoundEnabled
                                                     THEN "yes" ELSE flow.submitEnabled]
              /\ run' = IF postClicked THEN [run EXCEPT !.pc = "qConfirm"]
                        ELSE Throw(ErrPostNotClicked)
    /\ UNCHANGED <<platform, creds, login, race, browser, click, flowVars, pollVars, oracleVars>>

\* Step 6: the new tab is awaited and its URL confirmed, then
\* `return { success: true, url: publishedUrl, postId }`.
QuoraConfirm ==
    /\ run.pc = "qConfirm"
    /\ flow' = Enter(flow, "ConfirmingPublish")
    /\ \/ run' = [run EXCEPT !.pc = "finally", !.result = SuccessValue(run.op, <<"post">>)]
       \/ \E e \in {ErrNoNewTab, ErrNoPublishedUrl, ErrHomepage, ErrProfileOnly} :
             run' = Throw(e)
    /\ UNCHANGED <<platform, creds, login, race, browser, click, flowVars, pollVars, oracleVars>>

\* publishToMedium: `try { await service.navigateTo('https://medium.com/new-story') }
\* catch { if (!currentUrl.includes('medium.com')) throw ...; }`.
MediumNavigate ==
    /\ run.pc = "mNavigate"
    /\ flow' = Enter(flow, "Navigating")
    /\ browser' = [browser EXCEPT !.navigations = browser.navigations + 1, !.stagesRun = TRUE]
    /\ \E navigated \in BOOLEAN, onMedium \in BOOLEAN :
          run' = IF navigated \/ onMedium THEN [run EXCEPT !.pc = "mLocate"]
                 ELSE Throw(ErrMediumNavigate)
    /\ UNCHANGED <<platform, creds, login, race, click, flowVars, pollVars, oracleVars>>

\* The loop over Medium's editorSelectors with elementExists; `if (!editorFound)`
\* warns and takes a screenshot, errors swallowed, and the run goes on.
MediumLocateEditor ==
    /\ run.pc = "mLocate"
    /\ \E editorFound \in BOOLEAN :
          flow' = [Enter(flow, "LocatingEditor") EXCEPT
                      !.editorFound = IF editorFound THEN "yes" ELSE "no"]
    /\ run' = [run EXCEPT !.pc = "mTitle"]
    /\ UNCHANGED <<platform, creds, login, race, browser, click, flowVars, pollVars, oracleVars>>

\* The title fill, retried by findElementsWithRetry; its failure is rethrown as
\* 'Failed to fill title: ...'.
MediumFillTitle ==
    /\ run.pc = "mTitle"
    /\ \/ /\ run' = [run EXCEPT !.pc = "mBody"]
          /\ flow' = [Enter(flow, "FillingTitle") EXCEPT !.injected = "unverified"]
       \/ /\ run' = Throw(ErrFillTitle)
          /\ flow' = Enter(flow, "FillingTitle")
    /\ UNCHANGED <<platform, creds, login, race, browser, click, flowVars, pollVars, oracleVars>>

\* The content fill, likewise: 'Failed to fill content: ...'.
MediumFillBody ==
    /\ run.pc = "mBody"
    /\ \/ /\ run' = [run EXCEPT !.pc = "mVerify"]
          /\ flow' = [Enter(flow, "FillingBody") EXCEPT !.injected = "unverified"]
       \/ /\ run' = Throw(ErrFillContent)
          /\ flow' = Enter(flow, "FillingBody")
    /\ UNCHANGED <<platform, creds, login, race, browser, click, flowVars, pollVars, oracleVars>>

\* `if (!verification.hasTitle || !verification.hasContent) { ...; throw }`.
MediumVerifyContentRefills ==
    /\ run.pc = "mVerify"
    /\ \/ /\ run' = [run EXCEPT !.pc = "mAwait"]
          /\ flow' = [Enter(flow, "VerifyingContent") EXCEPT !.injected = "verified"]
       \/ /\ run' = [run EXCEPT !.pc = "mTitle"]
          /\ flow' = Enter(flow, "VerifyingContent")
    /\ UNCHANGED <<platform, creds, login, race, browser, click, flowVars, pollVars, oracleVars>>

MediumVerifyContent ==
    /\ run.pc = "mVerify"
    /\ \/ /\ run' = [run EXCEPT !.pc = "mAwait"]
          /\ flow' = [Enter(flow, "VerifyingContent") EXCEPT !.injected = "verified"]
       \/ /\ run' = Throw(ErrContentNotFilled)
          /\ flow' = Enter(flow, "VerifyingContent")
    /\ UNCHANGED <<platform, creds, login, race, browser, click, flowVars, pollVars, oracleVars>>

\* The wait for an enabled header 'Publish' button (findElementsWithRetry); its
\* failure is caught: 'Proceeding anyway, but publish may fail...'.  The draft is
\* then saved and the tags are typed; fillInput on the tag input is outside any
\* try and can throw.
MediumAwaitPublish ==
    /\ run.pc = "mAwait"
    /\ \E enabledFound \in BOOLEAN :
          flow' = [Enter(flow, "AwaitingSubmitEnabled") EXCEPT
                      !.submitEnabled = IF enabledFound THEN "yes" ELSE "no"]
    /\ \/ run' = [run EXCEPT !.pc = "mPublish"]
       \/ run' = Throw(ErrTagInput)
    /\ UNCHANGED <<platform, creds, login, race, browser, click, flowVars, pollVars, oracleVars>>

\* The header 'Publish' click: the script, then the selectors;
\* `if (!publishButtonClicked) throw`.  Neither asks whether the button is enabled.
MediumClickPublish ==
    /\ run.pc = "mPublish"
    /\ \E clicked \in BOOLEAN :
          /\ flow' = [Enter(flow, "Submitting") EXCEPT
                         !.clicks = IF clicked THEN flow.clicks + 1 ELSE flow.clicks]
          /\ run' = IF clicked THEN [run EXCEPT !.pc = "mPublishNow"]
                    ELSE Throw(ErrPublishNotClicked)
    /\ UNCHANGED <<platform, creds, login, race, browser, click, flowVars, pollVars, oracleVars>>

\* The 'Publish now' click in the modal; without it the URL decides (a URL with
\* '/edit' throws).
MediumPublishNow ==
    /\ run.pc = "mPublishNow"
    /\ \E clicked \in BOOLEAN, stillEdit \in BOOLEAN :
          /\ flow' = [Enter(flow, "Submitting") EXCEPT
                         !.clicks = IF clicked THEN flow.clicks + 1 ELSE flow.clicks]
          /\ run' = IF clicked \/ ~stillEdit THEN [run EXCEPT !.pc = "mConfirm"]
                    ELSE Throw(ErrPublishNowNotClicked)
    /\ UNCHANGED <<platform, creds, login, race, browser, click, flowVars, pollVars, oracleVars>>

\* The confirmation of the published URL, then `return { success: true, url, postId }`.
MediumConfirm ==
    /\ run.pc = "mConfirm"
    /\ flow' = Enter(flow, "ConfirmingPublish")
    /\ \/ run' = [run EXCEPT !.pc = "finally", !.result = SuccessValue(run.op, <<"post">>)]
       \/ \E e \in {ErrDraft, ErrStillDraft} : run' = Throw(e)
    /\ UNCHANGED <<platform, creds, login, race, browser, click, flowVars, pollVars, oracleVars>>

\* answerQuestion, run by publishToQuora `if (questionUrl)`:
\* `await service.navigateTo(questionUrl)`.
AnswerNavigate ==
    /\ run.pc = "aNavigate"
    /\ flow' = Enter(flow, "Navigating")
    /\ browser' = [browser EXCEPT !.navigations = browser.navigations + 1, !.stagesRun = TRUE]
    /\ \/ run' = [run EXCEPT !.pc = "aLocate"]
       \/ run' = Throw(ErrNavigate)
    /\ UNCHANGED <<platform, creds, login, race, click, flowVars, pollVars, oracleVars>>

\* `await service.waitForElement(answerBoxSelector, 15000)`: the wait throws when
\* no answer box is located in time.
AnswerWaitForBox ==
    /\ run.pc = "aLocate"
    /\ \E located \in BOOLEAN :
          /\ flow' = [Enter(flow, "LocatingEditor") EXCEPT
                         !.editorFound = IF located THEN "yes" ELSE "no"]
          /\ run' = IF located THEN [run EXCEPT !.pc = "aFill"] ELSE Throw(ErrDriver)
    /\ UNCHANGED <<platform, creds, login, race, browser, click, flowVars, pollVars, oracleVars>>

\* `if (isContentEditable) { executeScript(editor.innerHTML = ...) } else
\*  { fillInput(answerBoxSelector, content.content) }`: the text is injected and
\* nothing reads it back.
AnswerFill ==
    /\ run.pc = "aFill"
    /\ \/ /\ flow' = [Enter(flow, "FillingBody") EXCEPT !.injected = "unverified"]
          /\ run' = [run EXCEPT !.pc = "aImage"]
       \/ /\ flow' = Enter(flow, "FillingBody")
          /\ run' = Throw(ErrDriver)
    /\ UNCHANGED <<platform, creds, login, race, browser, click, flowVars, pollVars, oracleVars>>

\* `if (content.metadata?.imageUrl)` the URL is pasted; errors are swallowed.
AnswerAttachImage ==
    /\ run.pc = "aImage"
    /\ flow' = IF flow.hasImage THEN Enter(flow, "AttachingMedia") ELSE flow
    /\ run' = [run EXCEPT !.pc = "aSubmit"]
    /\ UNCHANGED <<platform, creds, login, race, browser, click, flowVars, pollVars, oracleVars>>

\* `await service.clickElement(submitButtonSelector, { by: 'css' })`: the element
\* is located and clicked, or the call throws.
AnswerSubmit ==
    /\ run.pc = "aSubmit"
    /\ \/ /\ flow' = [Enter(flow, "Submitting") EXCEPT !.clicks = flow.clicks + 1]
          /\ run' = [run EXCEPT !.pc = "aReturn"]
       \/ /\ flow' = Enter(flow, "Submitting")
          /\ run' = Throw(ErrDriver)
    /\ UNCHANGED <<platform, creds, login, race, browser, click, flowVars, pollVars, oracleVars>>

\* `const currentUrl = await service.getCurrentUrl(); ...
\*  return { success: true, url: currentUrl, answerId }`.
AnswerReturn ==
    /\ run.pc = "aReturn"
    /\ flow' = Enter(flow, "ConfirmingPublish")
    /\ \/ \E currentUrl \in Urls :
             run' = [run EXCEPT !.pc = "finally", !.result = SuccessValue(run.op, currentUrl)]
       \/ run' = Throw(ErrDriver)
    /\ UNCHANGED <<platform, creds, login, race, browser, click, flowVars, pollVars, oracleVars>>

WorkflowNext ==
    \/ AnswerNavigate \/ AnswerWaitForBox \/ AnswerFill \/ AnswerAttachImage
    \/ AnswerSubmit \/ AnswerReturn
    \/ QuoraNavigate \/ QuoraOpenComposer \/ QuoraTryEditorSelector \/ QuoraLastResort
    \/ QuoraAttachImage \/ QuoraAwaitPostButton \/ QuoraSubmit \/ QuoraConfirm
    \/ MediumNavigate \/ MediumLocateEditor \/ MediumFillTitle \/ MediumFillBody
    \/ MediumVerifyContent \/ MediumAwaitPublish \/ MediumClickPublish \/ MediumPublishNow
    \/ MediumConfirm \/ Catch \/ Cleanup

SpecWorkflow == WorkflowInit /\ [][WorkflowNext]_vars

----------------------------------------------------------------------------
(* Properties of the stage order and of the strategies within a stage. *)

Ordered(trail) ==
    \A i, j \in 1..Len(trail) : i < j => Rank(trail[i]) < Rank(trail[j])

\* Failed (an error was thrown out of the workflow) or Published.
Ended == run.error # "" \/ run.result.success = "true"

\* C22: the stages are entered in the order Authenticating, Navigating,
\* LocatingEditor, FillingTitle, FillingBody, VerifyingContent, AttachingMedia,
\* AwaitingSubmitEnabled, Submitting, ConfirmingPublish, none entered again after
\* a later one has begun; and once the workflow has failed or published, the only
\* steps are the screenshot and the teardown: no stage is entered, nothing is
\* clicked, nothing is navigated.
C22_StagesStrictlyForward ==
    /\ [](Ordered(flow.trail))
    /\ [][Ended => /\ flow' = flow
                   /\ browser'.navigations = browser.navigations
                   /\ browser'.refreshes = browser.refreshes]_vars

\* A Medium run that went through every stage it has and published.
C22_Witness ==
    /\ run.pc = "done"
    /\ run.result.success = "true"
    /\ flow.trail = <<"Authenticating", "Navigating", "LocatingEditor", "FillingTitle",
                      "FillingBody", "VerifyingContent", "AwaitingSubmitEnabled",
                      "Submitting", "ConfirmingPublish">>

\* A fill was acted, or a stage after the editor's location was entered, or a
\* submit control was clicked.
FillOrSubmitRan ==
    \/ \E i \in 1..Len(flow.tried) : flow.tried[i].acted
    \/ \E i \in 1..Len(flow.trail) :
          flow.trail[i] \in {"FillingTitle", "VerifyingContent", "AttachingMedia",
                             "AwaitingSubmitEnabled", "Submitting", "ConfirmingPublish"}
    \/ flow.clicks > 0

\* C23: when no locator strategy found the editor, no fill and no submit is
\* executed, and the run returns the editor-not-found failure.
C23_EditorNotFoundFails ==
    flow.editorFound = "no" =>
        /\ ~FillOrSubmitRan
        /\ run.pc = "done" =>
              run.result.success = "false" /\ run.result.error = ErrEditorNotFound

\* C24: when no enabled submit control was found, no publish/submit control is
\* clicked, and the run returns the submit-unavailable failure.
C24_NoEnabledSubmitFails ==
    flow.submitEnabled = "no" =>
        /\ flow.clicks = 0
        /\ run.pc = "done" =>
              /\ run.result.success = "false"
              /\ run.result.error \in {ErrPostNotClicked, ErrPublishNotClicked}

\* The content fill of createQuoraPost is over.
FillOver == run.pc # "qFill"

----------------------------------------------------------------------------
(* Property of the happy path of createQuoraPost. *)

\* The path segments of a URL: what stands between the '/' after the host, up to
\* the query.
PathSegments(url) ==
    LET q == {k \in 1..Len(url) : url[k] = "?"}
        end == IF q = {} THEN Len(url) ELSE (CHOOSE k \in q : \A j \in q : k <= j) - 1
    IN  Cardinality({k \in 2..end : url[k] # "/"})

\* A URL of the site that is not an edit URL, has at least two path segments,
\* and is neither the homepage nor a profile-only URL.
NonEditPostUrl(url) ==
    /\ url # NullUrl
    /\ SubSeq(url, 1, 1) = QuoraHome
    /\ ~Includes(url, <<"/", "edit">>)
    /\ PathSegments(url) >= 2
    /\ ~IsHomepageUrl(url)
    /\ ~IsProfileUrl(url)

\* The post was submitted, a tab was selected, every read of its URL returned,
\* and the URL the confirmation settled on is a non-edit post URL.
HappyConfirmation ==
    /\ post.newTabHandle # NullHandle
    /\ ~post.readFailed
    /\ NonEditPostUrl(post.readUrl)

\* C25: on the happy path the run returns success with the confirmed URL and
\* the identifier extracted from it, the identifier being absent when the
\* pattern does not match.
C25_HappyPathPublishes ==
    (run.pc = "done" /\ HappyConfirmation) =>
        run.result = PublishedValue(post.readUrl, QuoraPostId(post.readUrl))

----------------------------------------------------------------------------
(* Button matching: the header 'Publish' trigger and the 'Publish now'        *)
(* confirmation of publishToMedium, and the modal 'Post' of createQuoraPost.  *)
(* A button is described by what the scripts read of it; its text and its    *)
(* aria-label are sequences of lower-case words.                              *)

\* `rect.top < 150 && rect.right > window.innerWidth - 200` of the wait probe.
HeaderProbeTop == 150
HeaderRightMargin == 200
\* `rect.top < 100` of the click script and of the selector fallback.
HeaderClickTop == 100

ButtonStages == {"mediumHeader", "mediumPublishNow", "quoraModalPost"}

ButtonTexts ==
    { <<"post">>, <<"publish">>, <<"publish", "now">>, <<"schedule", "for", "later">>,
      <<"save", "draft">>, <<"save", "and", "publish">> }
AriaLabels == { <<>>, <<"publish">>, <<"publish", "now">>, <<"schedule">> }

\* `top` is rect.top, `rightGap` is window.innerWidth - rect.right, `rendered` is
\* offsetParent !== null with display and visibility set, `disabledClass` one of
\* the classes js-buttonDisabledPrimary, button--disabled, disabled, `blue` the
\* colour test of the Quora scripts, `selectorHit` that the button is the first
\* element the fallback selector matches.
Buttons ==
    [text : ButtonTexts, aria : AriaLabels, inModal : BOOLEAN,
     top : {50, 120, 200}, rightGap : {100, 300},
     disabled : BOOLEAN, disabledClass : BOOLEAN, rendered : BOOLEAN,
     blue : BOOLEAN, selectorHit : BOOLEAN]

\* `text === 'publish' || (text.includes('publish') && !text.includes('now') &&
\*    !text.includes('schedule'))`
IsPublishText(text) ==
    \/ text = <<"publish">>
    \/ /\ Includes(text, <<"publish">>)
       /\ ~Includes(text, <<"now">>)
       /\ ~Includes(text, <<"schedule">>)

\* The header test of the wait probe.
ProbeInHeader(b) == b.top < HeaderProbeTop /\ b.rightGap < HeaderRightMargin

\* The header test of the click script and of the selector fallback.
ClickInHeader(b) == b.top < HeaderClickTop

\* The probe of the wait for the enabled 'Publish' button: `isPublish`,
\* `isInHeader`, `!isDisabled && isVisible`, and `if (hasDisabledClass) return false`.
HeaderProbeMatch(b) ==
    /\ IsPublishText(b.text)
    /\ ProbeInHeader(b)
    /\ ~(b.disabled \/ b.disabledClass)
    /\ b.rendered

\* The header click script: `return isPublish && isInHeader`.
HeaderScriptMatch(b) == IsPublishText(b.text) /\ ClickInHeader(b)

\* What `element.click()` of the WebDriver needs: an element that is displayed
\* (a click on one that is not raises, and the loop goes on).
DriverCanClick(b) == b.rendered

\* The header selector fallback: elementExists(selector), `return rect.top < 100`,
\* clickElement(selector).
HeaderSelectorMatch(b) == b.selectorHit /\ ClickInHeader(b) /\ DriverCanClick(b)

\* The 'Publish now' script: in a modal, `hasPublishNow`, `!btn.disabled`; after
\* the scroll, `if (disabled || offsetParent === null) return false`.
PublishNowScriptMatch(b) ==
    /\ b.inModal
    /\ Includes(b.text, <<"publish", "now">>) \/ Includes(b.aria, <<"publish", "now">>)
    /\ ~Includes(b.text, <<"schedule">>)
    /\ ~Includes(b.text, <<"later">>)
    /\ ~Includes(b.aria, <<"schedule">>)
    /\ ~b.disabled
    /\ b.rendered

\* The 'Publish now' selector fallback: `text.includes('publish now') &&
\*    !text.includes('schedule') && !text.includes('later')`, in a modal,
\* `!button.disabled`, then clickElement(selector).
PublishNowSelectorMatch(b) ==
    /\ b.selectorHit
    /\ b.inModal
    /\ Includes(b.text, <<"publish", "now">>)
    /\ ~Includes(b.text, <<"schedule">>)
    /\ ~Includes(b.text, <<"later">>)
    /\ ~b.disabled
    /\ DriverCanClick(b)

\* The modal 'Post' click script of createQuoraPost: a button of a modal with
\* `text === 'post'`, no 'draft' or 'save' in text or aria-label, `!btn.disabled`,
\* and `isBlue`.
QuoraPostScriptMatch(b) ==
    /\ b.inModal
    /\ b.text = <<"post">>
    /\ ~Includes(b.text, <<"draft">>) /\ ~Includes(b.text, <<"save">>)
    /\ ~Includes(b.aria, <<"draft">>) /\ ~Includes(b.aria, <<"save">>)
    /\ ~b.disabled
    /\ b.blue

\* The selector fallback of the modal 'Post': `text === 'post' && modal !== null
\*    && !button.disabled`, then clickElement(selector).
QuoraPostSelectorMatch(b) ==
    /\ b.selectorHit
    /\ b.text = <<"post">>
    /\ b.inModal
    /\ ~b.disabled
    /\ DriverCanClick(b)

ScriptMatch(stage, b) ==
    CASE stage = "mediumHeader" -> HeaderScriptMatch(b)
      [] stage = "mediumPublishNow" -> PublishNowScriptMatch(b)
      [] stage = "quoraModalPost" -> QuoraPostScriptMatch(b)

SelectorMatch(stage, b) ==
    CASE stage = "mediumHeader" -> HeaderSelectorMatch(b)
      [] stage = "mediumPublishNow" -> PublishNowSelectorMatch(b)
      [] stage = "quoraModalPost" -> QuoraPostSelectorMatch(b)

\* `probed` and `clicked` hold the button found, <<>> when there is none.
ButtonsInit ==
    /\ \E stage \in ButtonStages :
          click = [stage |-> stage, pc |-> IF stage = "mediumHeader" THEN "probe" ELSE "script",
                   strategy |-> "none", probed |-> <<>>, clicked |-> <<>>]
    /\ flow = "idle"
    /\ PollIdle
    /\ OracleIdle
    /\ PublishIdle
    /\ FlowIdle

\* The wait for the enabled header 'Publish' button: the probe finds a button
\* or the retries end without one, and the run proceeds either way.
WaitForEnabledPublish ==
    /\ click.pc = "probe"
    /\ \E found \in {<<>>} \cup {<<b>> : b \in {x \in Buttons : HeaderProbeMatch(x)}} :
          click' = [click EXCEPT !.probed = found, !.pc = "script"]
    /\ UNCHANGED <<flow, publishVars, flowVars, pollVars, oracleVars>>

\* The script of the stage clicks the button its `find` returns, or finds none.
ClickByScript ==
    /\ click.pc = "script"
    /\ \/ \E b \in {x \in Buttons : ScriptMatch(click.stage, x)} :
             click' = [click EXCEPT !.clicked = <<b>>, !.strategy = "script", !.pc = "clicked"]
       \/ click' = [click EXCEPT !.pc = "selector"]
    /\ UNCHANGED <<flow, publishVars, flowVars, pollVars, oracleVars>>

\* The selector fallback of the stage clicks the element of the first selector
\* that passes its check; without one the stage has not clicked.
ClickBySelector ==
    /\ click.pc = "selector"
    /\ \/ \E b \in {x \in Buttons : SelectorMatch(click.stage, x)} :
             click' = [click EXCEPT !.clicked = <<b>>, !.strategy = "selector", !.pc = "clicked"]
       \/ click' = [click EXCEPT !.pc = "notClicked"]
    /\ UNCHANGED <<flow, publishVars, flowVars, pollVars, oracleVars>>

ButtonsNext == WaitForEnabledPublish \/ ClickByScript \/ ClickBySelector

SpecButtons == ButtonsInit /\ [][ButtonsNext]_vars

----------------------------------------------------------------------------
(* Properties of button matching. *)

Clicked == click.clicked # <<>>
Probed == click.probed # <<>>

DisqualifyingKeywords == {"schedule", "later", "draft", "save"}

HasDisqualifyingKeyword(text) == \E k \in DisqualifyingKeywords : Includes(text, <<k>>)

\* C28: in every button-matching stage and with every strategy, the button
\* clicked has no 'schedule', 'later', 'draft' or 'save' in its visible text.
C28_NoDisqualifiedButtonClicked ==
    Clicked => ~HasDisqualifyingKeyword(click.clicked[1].text)

\* C29: 'Publish now' and the modal 'Post' are clicked only on a button inside a
\* modal; the header 'Publish' is clicked only on a button in the header, the
\* header test being the same in the wait probe and in the click: the button
\* clicked passes the probe's test and the button the probe found passes the
\* click's.
C29_StructuralScope ==
    /\ (Clicked /\ click.stage \in {"mediumPublishNow", "quoraModalPost"}) =>
          click.clicked[1].inModal
    /\ (Clicked /\ click.stage = "mediumHeader") =>
          ClickInHeader(click.clicked[1]) /\ ProbeInHeader(click.clicked[1])
    /\ (Probed /\ click.stage = "mediumHeader") =>
          ProbeInHeader(click.probed[1]) /\ ClickInHeader(click.probed[1])

\* C30: in every button-matching stage and with every strategy, the button
\* clicked is enabled and rendered.
C30_ClickedEnabledAndRendered ==
    Clicked => ~click.clicked[1].disabled /\ click.clicked[1].rendered

----------------------------------------------------------------------------
(* Property of the resync of in-place confirmation. *)

\* C31: a run of publishToMedium that fails because the URL still matches the
\* draft/edit pattern has re-navigated once to the non-edit form before failing,
\* and no run re-navigates more than once (the run starts with the two
\* navigations of login and of the new-story page).
C31_OneResyncBeforeGivingUp ==
    /\ (run.pc = "done" /\ run.result.error \in {ErrDraft, ErrStillDraft}) => story.resynced
    /\ browser.navigations <= 3


----------------------------------------------------------------------------
(* Property of the URL poll of new-tab confirmation. *)

\* C32: in new-tab confirmation an unconfirmed URL (about:blank, the homepage, a
\* profile-only URL) is retried within the polling window: the URL poll is left
\* with a URL that is not a post URL only when all its UrlPolls iterations have
\* been made.
C32_UnconfirmedUrlRetried ==
    [][(run.pc = "pollUrl" /\ run'.pc = "validate" /\ ~IsPostUrl(post'.publishedUrl))
          => post.i = UrlPolls]_vars


----------------------------------------------------------------------------
(* Property of the verification of injected text. *)

\* C33: in no run of a publish path (Medium story, Quora post, Quora answer) is a
\* submit control clicked after a text injection that was not verified.
C33_SubmitOnlyAfterVerifiedInjection ==
    flow.clicks > 0 => flow.injected = "verified"


----------------------------------------------------------------------------
(* Property of the final confirmation click. *)

\* C34: a publish run returns success = true only if the final confirmation
\* control ('Publish now' of the Medium modal) was clicked in that run; without
\* that click the result is success = false.
C34_SuccessOnlyAfterFinalClick ==
    run.result.success = "true" => story.publishNowClicked


----------------------------------------------------------------------------
(* Property of the homepage 'Post' trigger poll of createQuoraPost. *)

\* C35: the poll of the Quora 'Post' trigger ends successfully only when the
\* trigger was clicked: it never returns a probe outcome that says the trigger
\* was not clicked ({clicked: false}); such an outcome is retried.
C35_PollReturnsOnlyAClick ==
    poll.pc = "returned" => poll.ret # "notClicked"


----------------------------------------------------------------------------
(* Property of the fallback of the homepage 'Post' trigger. *)

\* C36: when the script strategy of the Quora 'Post' trigger fails, the selector
\* fallback is still tried, and the stage fails only with the error of the
\* 'Post' button, raised after every selector has failed as well.
C36_TriggerFailsOnlyAfterFallback ==
    [][(run.pc = "qOpenComposer" /\ run'.error # "") => run'.error = ErrHomePostNotClicked]_vars


----------------------------------------------------------------------------
(* Property of the quick cookie validation of verify*Config. *)

\* The platform's session cookies.
SessionCookies(pf) == IF pf = "quora" THEN {"m-b", "m-s"} ELSE {"sid", "uid"}

\* C37: verifyQuoraConfig and verifyMediumConfig, called with a non-empty cookie
\* list, return success = true whatever the cookies are and create no browser
\* session; `verified` is true exactly when the list holds one of the platform's
\* session cookies.
C37_QuickValidationAcceptsAll ==
    (run.op = "verify" /\ creds.numCookies > 0) =>
        /\ browser = NoBrowser
        /\ run.pc \in {"entry", "done"}
        /\ run.pc = "done" =>
              /\ run.result.success = "true" /\ run.result.error = ""
              /\ run.result.verified \in {"true", "false"}
              /\ run.result.verified = "true" <=>
                    \E i \in 1..Len(creds.cookies) : creds.cookies[i] \in SessionCookies(platform)

\* A Quora verification of a nameless cookie and Medium's session cookie: accepted,
\* not verified.
C37_Witness ==
    /\ run.op = "verify" /\ run.pc = "done" /\ platform = "quora"
    /\ creds.cookies = <<"", "sid">>
    /\ run.result.success = "true" /\ run.result.verified = "false"


----------------------------------------------------------------------------
(* Property of the results of the publish entry points. *)

\* A PublishResult with success and a URL and no error, or with a failure, an
\* error and no URL.
WellFormed(result) ==
    /\ result.success \in {"true", "false"}
    /\ result.success = "true" => (result.url # <<>> /\ result.error = "")
    /\ result.success = "false" => (result.error # "" /\ result.url = <<>>)
    /\ ~(result.url # <<>> /\ result.error # "")

----------------------------------------------------------------------------
(* Property of termination. *)

====
